---- MODULE Spec2Model ----
(***************************************************************************)
(* imgpipel: the job planner / executor / report reconciler of             *)
(* src/lib/process.ts, in the three revisions the repository holds:        *)
(*   "plain"  - src/src/lib/process.ts (report saved without await,        *)
(*              no merge with an existing report)                          *)
(*   "merge"  - src/unnamed/part_001 lines 1-279 (report awaited and       *)
(*              deep-merged with the existing report)                      *)
(*   "hashed" - src/unnamed/part_001 lines 281-631 (output paths salted    *)
(*              with a content hash, stale report keys pruned)             *)
(* File names are TLA+ strings, so that output paths are really            *)
(* concatenated and two of them can really coincide.                       *)
(***************************************************************************)
EXTENDS Integers, Sequences, FiniteSets, TLC

\* ------------------------------------------------------------------ bounds
MaxFiles == 2      \* most image files the input directory holds
MaxTargets == 2    \* most targets given on the command line
MaxRuns == 2       \* most invocations of the command in one behaviour
Cpus == 2          \* os.cpus().length of the host
MaxEdits == 1      \* most edits of one input file
MaxRerunJobs == 2  \* the command is invoked again only on plans of at most this many jobs
MaxPlan == 4       \* most jobs of the first plan over many input shapes
MaxArgs == 3       \* most target arguments of a command line with a malformed one
MaxLines == 2      \* most lines of exiftool output beside those of the two sizes

\* ------------------------------------------------------- program constants
imgExtensions == {"jpg", "jpeg", "png"}

Variants == {"plain", "merge", "hashed"}

InDir == "in"
OutDir == "out"

\* ------------------------------------------------------------ input space
\* A file of the input directory, already split the way path.relative,
\* path.dirname, path.basename and path.extname split it.
FileA == [dir |-> "", base |-> "a", ext |-> ".jpg"]
FileAB == [dir |-> "", base |-> "a_b", ext |-> ".jpg"]
FileC == [dir |-> "sub/", base |-> "c", ext |-> ".png"]
FileTxt == [dir |-> "", base |-> "notes", ext |-> ".txt"]

\* The order in which glob lists the files it finds.
GlobOrder == <<FileA, FileAB, FileC, FileTxt>>

\* Targets as parseTarget returns them; 0 stands for an omitted dimension.
TargetT == [name |-> "t", maxWidth |-> 0, maxHeight |-> 0]
TargetBT == [name |-> "b_t", maxWidth |-> 100, maxHeight |-> 0]
TargetS == [name |-> "s", maxWidth |-> 100, maxHeight |-> 50]
TargetH == [name |-> "h", maxWidth |-> 0, maxHeight |-> 50]

\* ------------------------------------------------------ target arguments
\* A target argument of the command line: its text and the fields that
\* splitting it at ':' gives.
\* Arguments that name no target: free text, no name, no number.
RawBad ==
  {[text |-> "not a valid target", fields |-> <<"not a valid target">>],
   [text |-> ":1.0:100:100", fields |-> <<"", "1.0", "100", "100">>],
   [text |-> "t::wide:", fields |-> <<"t", "", "wide", "">>]}

\* The decimal numbers the arguments of the model use; an omitted field is 0.
NumOf == [x \in {"", "50", "100"} |-> IF x = "" THEN 0 ELSE IF x = "50" THEN 50 ELSE 100]

\* The argument that names a target.
RawOf(t) ==
  LET w == IF t.maxWidth = 0 THEN "" ELSE ToString(t.maxWidth)
      h == IF t.maxHeight = 0 THEN "" ELSE ToString(t.maxHeight)
  IN [text |-> t.name \o "::" \o w \o ":" \o h, fields |-> <<t.name, "", w, h>>]

RawArgs(q) == [i \in DOMAIN q |-> RawOf(q[i])]

\* parseTarget(raw, defaultQuality): name:quality:maxWidth:maxHeight, every
\* value but the name, which matches \w+, may be omitted; a failure names the
\* required format.
ParseTarget(raw) ==
  IF /\ Len(raw.fields) = 4
     /\ raw.fields[1] \in {"t", "b_t", "s", "h"}
     /\ raw.fields[2] \in {"", "1.0"}
     /\ raw.fields[3] \in DOMAIN NumOf
     /\ raw.fields[4] \in DOMAIN NumOf
    THEN [success |-> TRUE,
          target |-> [name |-> raw.fields[1], maxWidth |-> NumOf[raw.fields[3]],
                      maxHeight |-> NumOf[raw.fields[4]]],
          error |-> ""]
    ELSE [success |-> FALSE, target |-> [name |-> "", maxWidth |-> 0, maxHeight |-> 0],
          error |-> "Invalid target '" \o raw.text
                      \o "', expected name:quality:maxWidth:maxHeight"]

\* A loop that stops at the first failure.
RECURSIVE CollectErrorsFirst(_)
CollectErrorsFirst(results) ==
  IF results = <<>> THEN <<>>
  ELSE IF Head(results).success THEN CollectErrorsFirst(Tail(results))
  ELSE <<Head(results).error>>

\* `else errors.push(result.error)` over rawTargets.entries().
RECURSIVE CollectErrors(_)
CollectErrors(results) ==
  IF results = <<>> THEN <<>>
  ELSE IF Head(results).success THEN CollectErrors(Tail(results))
  ELSE <<Head(results).error>> \o CollectErrors(Tail(results))

\* errors.join('\n').
RECURSIVE JoinLines(_)
JoinLines(lines) ==
  IF lines = <<>> THEN ""
  ELSE IF Len(lines) = 1 THEN lines[1]
  ELSE lines[1] \o "\n" \o JoinLines(Tail(lines))

\* ---------------------------------------------------------- path helpers
RelPath(f) == f.dir \o f.base \o f.ext

InPath(f) == InDir \o "/" \o RelPath(f)

Extname(f) == f.ext

Basename(f) == f.base

\* glob(path.join(dir, '**', '*.{jpg,jpeg,png}')): the files whose
\* extension is one of imgExtensions, in glob's order.
IsImageExt(ext) == \E e \in imgExtensions : ext = "." \o e

RECURSIVE FilterSeq(_, _)
FilterSeq(s, keep) ==
  IF s = <<>> THEN <<>>
  ELSE IF Head(s) \in keep THEN <<Head(s)>> \o FilterSeq(Tail(s), keep)
  ELSE FilterSeq(Tail(s), keep)

GlobIn(listing) == FilterSeq(GlobOrder, {f \in listing : IsImageExt(Extname(f))})

\* sha256sum of a file, cut to its first 8 characters.
Sha8(content) == IF content = 1 THEN "6b86b273" ELSE IF content = 2 THEN "d4735e3a" ELSE "4e074085"

\* The output path of one (input file, target) pair.
PathJoin(dir, rel) == dir \o "/" \o rel

\* An output name that leaves the hash out.
OutNameUnsalted(v, f, t, hash) == f.dir \o Basename(f) \o "_" \o t.name \o Extname(f)

OutNameOf(v, f, t, hash) ==
  IF v = "hashed"
    THEN f.dir \o Basename(f) \o "_" \o t.name \o "." \o hash \o Extname(f)
    ELSE f.dir \o Basename(f) \o "_" \o t.name \o Extname(f)

OutPathOf(v, f, t, hash) == PathJoin(OutDir, OutNameOf(v, f, t, hash))

\* A planner that uses the first target only.
GatherJobsFirstTarget(v, files, hashes, tgts, prm) ==
  [k \in 1..Len(files) |->
     [inPath |-> files[k],
      outPath |-> OutPathOf(v, files[k], tgts[1], hashes[k]),
      parseMetadata |-> prm.outMetadata,
      preserveMetadata |-> prm.preserveMetadata,
      target |-> tgts[1]]]

\* "Gather jobs": for inPath of inFiles, for target of targets, push a job.
GatherJobs(v, files, hashes, tgts, prm) ==
  [k \in 1..(Len(files) * Len(tgts)) |->
     LET i == ((k - 1) \div Len(tgts)) + 1
         n == ((k - 1) % Len(tgts)) + 1
     IN [inPath |-> files[i],
         outPath |-> OutPathOf(v, files[i], tgts[n], hashes[i]),
         parseMetadata |-> prm.outMetadata,
         preserveMetadata |-> prm.preserveMetadata,
         target |-> tgts[n]]]

\* A geometry of the width alone whenever a width is given.
ResizeToWidth(t) ==
  IF t.maxWidth # 0 THEN ToString(t.maxWidth) \o ">"
  ELSE IF t.maxHeight # 0 THEN "x" \o ToString(t.maxHeight) \o ">"
  ELSE ""

\* resizeTo of processOne; "" stands for undefined.
ResizeTo(t) ==
  IF t.maxWidth # 0 /\ t.maxHeight # 0
    THEN ToString(t.maxWidth) \o "x" \o ToString(t.maxHeight) \o ">"
  ELSE IF t.maxWidth # 0 THEN ToString(t.maxWidth) \o ">"
  ELSE IF t.maxHeight # 0 THEN "x" \o ToString(t.maxHeight) \o ">"
  ELSE ""

\* ------------------------------------------------------------ JSON values
\* A value of a report entry: a number, a string, a Date, undefined or an
\* array; v holds its content as a tuple of numbers.
Num(n) == [k |-> "num", v |-> <<n>>]
Str(n) == [k |-> "str", v |-> <<n>>]
DateV(n) == [k |-> "date", v |-> <<n>>]
Undef == [k |-> "undef", v |-> <<>>]
Arr(s) == [k |-> "arr", v |-> s]

EmptyMap == [x \in {} |-> Undef]

\* JSON.stringify of a value: a Date becomes its ISO string.
StringifyValue(x) == IF x.k = "date" THEN [k |-> "str", v |-> x.v] ELSE x

\* JSON.stringify of an object: a property whose value is undefined is left out.
StringifyMap(m) ==
  [key \in DOMAIN m |->
     [f \in {g \in DOMAIN m[key] : m[key][g].k # "undef"} |-> StringifyValue(m[key][f])]]

\* The content of the report file after writeFile(JSON.stringify(r, null, 2)).
Stringify(r) ==
  [kind |-> "json",
   has |-> r.has,
   original |-> StringifyMap(r.original),
   processed |-> StringifyMap(r.processed)]

\* ---------------------------------------------------------------- deepmerge
\* deepmerge(target, source) of two values: two arrays are concatenated,
\* anything else is replaced by the source. mergeObject on two entries, and on
\* two maps of entries: the keys of the target are copied, then every key of
\* the source is merged over them.
MergeMap(t, s) ==
  LET MergeValue(x, y) ==
        IF x.k = "arr" /\ y.k = "arr" THEN [k |-> "arr", v |-> x.v \o y.v] ELSE y
      MergeEntry(x, y) ==
        [f \in (DOMAIN x) \cup (DOMAIN y) |->
           IF f \in DOMAIN y
             THEN (IF f \in DOMAIN x THEN MergeValue(x[f], y[f]) ELSE y[f])
             ELSE x[f]]
  IN [key \in (DOMAIN t) \cup (DOMAIN s) |->
        IF key \in DOMAIN s
          THEN (IF key \in DOMAIN t THEN MergeEntry(t[key], s[key]) ELSE s[key])
          ELSE t[key]]

\* deepmerge(report, parsed): report is the target, parsed the source.
DeepMerge(target, source) ==
  [has |-> target.has \cup source.has,
   original |-> IF "original" \in source.has
                  THEN MergeMap(target.original, source.original)
                  ELSE target.original,
   processed |-> IF "processed" \in source.has
                   THEN MergeMap(target.processed, source.processed)
                   ELSE target.processed]

\* A pruning that finds no stale key.
StaleKeysNone(m, keys) == {}

\* "Delete keys that no longer exist": the keys of the parsed report that the
\* new report does not have, in the order they are pushed to `deleted`.
StaleKeys(m, keys) == {key \in DOMAIN m : key \notin keys}

\* A pruning that deletes nothing.
PruneMapNothing(m, keys) == m

PruneMap(m, keys) == [key \in (DOMAIN m) \ StaleKeys(m, keys) |-> m[key]]

\* ------------------------------------------------------- external tools
\* What exiftool reports for an input file of the given content.
MetaOf(content) ==
  [width |-> Num(10 * content),
   cameraMake |-> IF content = 1 THEN Undef ELSE Str(content),
   date |-> DateV(content),
   localDate |-> Arr(<<2024, 5, 25, 15, 35, content>>)]

\* What exiftool reports for an output file.
OutWidth(x) == IF x.geom = "" THEN 10 * x.src ELSE 5

\* The bytes cjpegli writes for a job, before the metadata step.
Compressed(job, content) ==
  [ext |-> Extname(job.inPath), src |-> content, tgt |-> job.target.name,
   geom |-> ResizeTo(job.target), meta |-> "raw"]

\* The same file after exiftool copied the input's tags or stripped all tags.
WithTags(x, preserve) ==
  [x EXCEPT !.meta = IF preserve THEN "copied" ELSE "stripped"]

\* A file nobody planned, left in the output directory.
StaleFile(ext) == [ext |-> ext, src |-> 0, tgt |-> "", geom |-> "", meta |-> "stale"]

\* ------------------------------------------------------------ metadata.ts
\* Strings of metadata.ts are sequences of one-character strings, so that a
\* regular expression is matched and a date is composed character by character.
Digits == {"0", "1", "2", "3", "4", "5", "6", "7", "8", "9"}

DigitChar == <<"1", "2", "3", "4", "5", "6", "7", "8", "9">>

IsDigits(cs) == \A i \in DOMAIN cs : cs[i] \in Digits

\* Number.parseInt(cs, 10) of a sequence of digits.
RECURSIVE ParseInt(_)
ParseInt(cs) ==
  LET last == cs[Len(cs)]
  IN IF cs = <<>> THEN 0
     ELSE 10 * ParseInt(SubSeq(cs, 1, Len(cs) - 1))
            + (IF last = "0" THEN 0 ELSE CHOOSE n \in 1..9 : DigitChar[n] = last)

\* A dtoRe without its `$`: a match of the first nineteen characters.
DtoMatchPrefix(d) ==
  /\ Len(d) >= 19
  /\ \A i \in {1, 2, 3, 4, 6, 7, 9, 10, 12, 13, 15, 16, 18, 19} : d[i] \in Digits
  /\ d[5] = ":" /\ d[8] = ":" /\ d[11] = " " /\ d[14] = ":" /\ d[17] = ":"

\* dto.match(/^(\d{4}):(\d{2}):(\d{2}) (\d{2}):(\d{2}):(\d{2})$/).
DtoMatch(d) ==
  /\ Len(d) = 19
  /\ \A i \in {1, 2, 3, 4, 6, 7, 9, 10, 12, 13, 15, 16, 18, 19} : d[i] \in Digits
  /\ d[5] = ":" /\ d[8] = ":" /\ d[11] = " " /\ d[14] = ":" /\ d[17] = ":"

\* The value of an omitted oto argument.
NoOffset == <<"undefined">>

Zulu == <<"Z">>

\* The default only, '00:00' taken as it is.
OtAsGiven(o) == IF o = NoOffset THEN Zulu ELSE o

\* `oto: string = 'Z'` and `oto === '00:00' ? 'Z' : oto`.
Ot(o) == IF o = NoOffset \/ o = <<"0", "0", ":", "0", "0">> THEN Zulu ELSE o

\* An iso8601 with the day put before the month.
Iso8601DayFirst(d, ot) ==
  SubSeq(d, 1, 4) \o <<"-">> \o SubSeq(d, 9, 10) \o <<"-">> \o SubSeq(d, 6, 7) \o <<"T">>
    \o SubSeq(d, 12, 13) \o <<":">> \o SubSeq(d, 15, 16) \o <<":">> \o SubSeq(d, 18, 19) \o ot

\* `${year}-${month}-${day}T${hour}:${minute}:${second}${ot}`.
Iso8601(d, ot) ==
  SubSeq(d, 1, 4) \o <<"-">> \o SubSeq(d, 6, 7) \o <<"-">> \o SubSeq(d, 9, 10) \o <<"T">>
    \o SubSeq(d, 12, 13) \o <<":">> \o SubSeq(d, 15, 16) \o <<":">> \o SubSeq(d, 18, 19) \o ot

\* The days of a month of the Gregorian calendar.
DaysIn(y, m) ==
  LET leap == (y % 4 = 0 /\ y % 100 # 0) \/ y % 400 = 0
  IN IF m = 2 THEN (IF leap THEN 29 ELSE 28)
     ELSE IF m \in {4, 6, 9, 11} THEN 30 ELSE 31

\* The time value, in seconds, of a civil date and time at a UTC offset:
\* `days` are the days from 1970-01-01 to the date (a day past the end of the
\* month counts on into the next one).
TimeValue(y, m, d, h, mi, sec, offsetMinutes) ==
  LET yy == IF m <= 2 THEN y - 1 ELSE y
      era == yy \div 400
      yoe == yy - era * 400
      mp == IF m > 2 THEN m - 3 ELSE m + 9
      doy == (153 * mp + 2) \div 5 + d - 1
      doe == yoe * 365 + yoe \div 4 - yoe \div 100 + doy
      days == era * 146097 + doe - 719468
  IN days * 86400 + h * 3600 + mi * 60 + sec - offsetMinutes * 60

NaN == [nan |-> TRUE, time |-> 0]

\* new Date(iso): the date-time string format of ECMAScript,
\* YYYY-MM-DDTHH:mm:ss followed by a time zone designator, which is Z, +HH:mm
\* or -HH:mm. A day of the month that the month does not have, up to 31, is
\* outside the format; an engine either rejects it or counts on into the next
\* month (`lenient`).
NewDate(iso, lenient) ==
  LET z == SubSeq(iso, 20, Len(iso))
      zoneOk ==
        \/ z = Zulu
        \/ /\ Len(z) = 6
           /\ z[1] \in {"+", "-"}
           /\ z[2] \in Digits /\ z[3] \in Digits /\ z[4] = ":"
           /\ z[5] \in Digits /\ z[6] \in Digits
           /\ ParseInt(SubSeq(z, 2, 3)) <= 23
           /\ ParseInt(SubSeq(z, 5, 6)) <= 59
      zoneMinutes ==
        IF z = Zulu THEN 0
        ELSE (IF z[1] = "-" THEN -1 ELSE 1)
               * (60 * ParseInt(SubSeq(z, 2, 3)) + ParseInt(SubSeq(z, 5, 6)))
      y == ParseInt(SubSeq(iso, 1, 4))
      m == ParseInt(SubSeq(iso, 6, 7))
      d == ParseInt(SubSeq(iso, 9, 10))
      h == ParseInt(SubSeq(iso, 12, 13))
      mi == ParseInt(SubSeq(iso, 15, 16))
      sec == ParseInt(SubSeq(iso, 18, 19))
  IN IF ~(/\ Len(iso) >= 20
          /\ \A i \in {1, 2, 3, 4, 6, 7, 9, 10, 12, 13, 15, 16, 18, 19} : iso[i] \in Digits
          /\ iso[5] = "-" /\ iso[8] = "-" /\ iso[11] = "T" /\ iso[14] = ":" /\ iso[17] = ":"
          /\ zoneOk)
       THEN NaN
     ELSE IF /\ m \in 1..12
             /\ d \in 1..(IF lenient THEN 31 ELSE DaysIn(y, m))
             /\ h <= 23 /\ mi <= 59 /\ sec <= 59
       THEN [nan |-> FALSE, time |-> TimeValue(y, m, d, h, mi, sec, zoneMinutes)]
     ELSE NaN

DateFailure(msg) == [success |-> FALSE, error |-> msg, date |-> 0, localDate |-> <<>>]

\* toDate(dto, oto).
ToDate(d, o, lenient) ==
  IF ~DtoMatch(d) THEN DateFailure("Could not parse DateTimeOriginal field")
  ELSE LET date == NewDate(Iso8601(d, Ot(o)), lenient)
       IN IF date.nan THEN DateFailure("Invalid date")
          ELSE [success |-> TRUE, error |-> "", date |-> date.time,
                localDate |-> <<ParseInt(SubSeq(d, 1, 4)), ParseInt(SubSeq(d, 6, 7)),
                                ParseInt(SubSeq(d, 9, 10)), ParseInt(SubSeq(d, 12, 13)),
                                ParseInt(SubSeq(d, 15, 16)), ParseInt(SubSeq(d, 18, 19))>>]

\* ---------------------------------------------------- inputs of metadata.ts
Pad2(n) == <<(IF n \div 10 = 0 THEN "0" ELSE DigitChar[n \div 10]),
             (IF n % 10 = 0 THEN "0" ELSE DigitChar[n % 10])>>

\* The OffsetTimeOriginal of an offset of so many minutes.
FormatOffset(minutes) ==
  LET a == IF minutes < 0 THEN -minutes ELSE minutes
  IN <<(IF minutes < 0 THEN "-" ELSE "+")>> \o Pad2(a \div 60) \o <<":">> \o Pad2(a % 60)

OffsetMinutes == {-300, 330}

\* Years, months, days, hours, minutes and seconds, some of them out of range.
DtoFields ==
  {1999, 2024} \X {0, 2, 5, 12, 13} \X {0, 1, 29, 31, 32} \X {0, 15, 25} \X {35, 60} \X {5, 60}

\* The DateTimeOriginal that exiftool prints for a date and time.
DtoOf(c) ==
  Pad2(c[1] \div 100) \o Pad2(c[1] % 100) \o <<":">> \o Pad2(c[2]) \o <<":">> \o Pad2(c[3])
    \o <<" ">> \o Pad2(c[4]) \o <<":">> \o Pad2(c[5]) \o <<":">> \o Pad2(c[6])

\* Strings that are no DateTimeOriginal: free text, an ISO date, a date
\* without its time, one digit too few, a fraction of a second appended.
MalformedDtos ==
  {<<"g", "a", "r", "b", "a", "g", "e">>,
   <<"2", "0", "2", "4", "-", "0", "5", "-", "2", "5", " ", "1", "5", ":", "3", "5", ":", "0", "5">>,
   <<"2", "0", "2", "4", ":", "0", "5", ":", "2", "5">>,
   <<"2", "0", "2", "4", ":", "5", ":", "2", "5", " ", "1", "5", ":", "3", "5", ":", "0", "5">>,
   <<"2", "0", "2", "4", ":", "0", "5", ":", "2", "5", " ", "1", "5", ":", "3", "5", ":", "0", "5", ".", "5">>,
   <<>>}

GarbageOffset == <<"g", "a", "r", "b", "a", "g", "e">>

OffsetInputs ==
  {Zulu, NoOffset, <<"0", "0", ":", "0", "0">>, GarbageOffset}
    \cup {FormatOffset(m) : m \in OffsetMinutes}

\* --------------------------------------------------- parseExiftoolMetadata
\* \w of a regular expression.
WordChars ==
  {"a", "b", "c", "d", "e", "f", "g", "h", "i", "j", "k", "l", "m",
   "n", "o", "p", "q", "r", "s", "t", "u", "v", "w", "x", "y", "z",
   "A", "B", "C", "D", "E", "F", "G", "H", "I", "J", "K", "L", "M",
   "N", "O", "P", "Q", "R", "S", "T", "U", "V", "W", "X", "Y", "Z",
   "0", "1", "2", "3", "4", "5", "6", "7", "8", "9", "_"}

\* \s, as far as exiftool's output has it.
SpaceChars == {" ", "\t"}

\* The position of the first ':' of a line, 0 if it has none.
FirstColon(line) ==
  IF \E i \in DOMAIN line : line[i] = ":"
    THEN CHOOSE i \in DOMAIN line :
           line[i] = ":" /\ \A k \in 1..(i - 1) : line[k] # ":"
    ELSE 0

\* line.match(/^([\w-_\s]+)\s*:\s(.+)$/): the key, of the class [\w-_\s], is
\* everything before the first ':', the value everything after the whitespace
\* that follows it.
LineMatch(line) ==
  LET c == FirstColon(line)
  IN /\ c >= 2
     /\ \A i \in 1..(c - 1) : line[i] \in WordChars \cup {"-"} \cup SpaceChars
     /\ Len(line) >= c + 2
     /\ line[c + 1] \in SpaceChars
     /\ \A i \in (c + 2)..Len(line) : line[i] # "\r"

KeyOf(line) == SubSeq(line, 1, FirstColon(line) - 1)

ValueOf(line) == SubSeq(line, FirstColon(line) + 2, Len(line))

\* key.replaceAll(/[ -]/g, '').
NormalizeKey(key) == SelectSeq(key, LAMBDA c : c \notin {" ", "-"})

\* The loop over the lines, from line i on: kv[key] = value for every line
\* that matches, a later line replacing an earlier one of the same key.
RECURSIVE KvFrom(_, _, _)
KvFrom(lines, i, kv) ==
  IF i > Len(lines) THEN kv
  ELSE IF LineMatch(lines[i])
    THEN KvFrom(lines, i + 1, (NormalizeKey(KeyOf(lines[i])) :> ValueOf(lines[i])) @@ kv)
  ELSE KvFrom(lines, i + 1, kv)

\* `kv` after the loop.
Kv(lines) == KvFrom(lines, 1, <<>>)

\* A test of `kv` that never finds it empty.
NoPairsNever(kv) == FALSE

\* Object.keys(kv).length === 0.
NoPairs(kv) == DOMAIN kv = {}

\* The keys of metadataSchema, as sequences of characters.
Key ==
  [CameraProfile |-> <<"C", "a", "m", "e", "r", "a", "P", "r", "o", "f", "i", "l", "e">>,
   CaptionAbstract |-> <<"C", "a", "p", "t", "i", "o", "n", "A", "b", "s", "t", "r", "a", "c", "t">>,
   DateTimeOriginal |-> <<"D", "a", "t", "e", "T", "i", "m", "e", "O", "r", "i", "g", "i", "n", "a", "l">>,
   ExposureTime |-> <<"E", "x", "p", "o", "s", "u", "r", "e", "T", "i", "m", "e">>,
   FNumber |-> <<"F", "N", "u", "m", "b", "e", "r">>,
   FocalLength |-> <<"F", "o", "c", "a", "l", "L", "e", "n", "g", "t", "h">>,
   ISO |-> <<"I", "S", "O">>,
   ImageHeight |-> <<"I", "m", "a", "g", "e", "H", "e", "i", "g", "h", "t">>,
   ImageWidth |-> <<"I", "m", "a", "g", "e", "W", "i", "d", "t", "h">>,
   LensInfo |-> <<"L", "e", "n", "s", "I", "n", "f", "o">>,
   LensMake |-> <<"L", "e", "n", "s", "M", "a", "k", "e">>,
   LensModel |-> <<"L", "e", "n", "s", "M", "o", "d", "e", "l">>,
   Location |-> <<"L", "o", "c", "a", "t", "i", "o", "n">>,
   Make |-> <<"M", "a", "k", "e">>,
   Model |-> <<"M", "o", "d", "e", "l">>,
   ObjectName |-> <<"O", "b", "j", "e", "c", "t", "N", "a", "m", "e">>,
   OffsetTimeOriginal |-> <<"O", "f", "f", "s", "e", "t", "T", "i", "m", "e", "O", "r", "i", "g", "i", "n", "a", "l">>,
   Sublocation |-> <<"S", "u", "b", "l", "o", "c", "a", "t", "i", "o", "n">>]

SchemaKeys == {Key[n] : n \in DOMAIN Key}

RECURSIVE TrimLeft(_)
TrimLeft(cs) ==
  IF cs # <<>> /\ Head(cs) \in SpaceChars THEN TrimLeft(Tail(cs)) ELSE cs

RECURSIVE TrimRight(_)
TrimRight(cs) ==
  IF cs # <<>> /\ cs[Len(cs)] \in SpaceChars THEN TrimRight(SubSeq(cs, 1, Len(cs) - 1)) ELSE cs

\* Number(value) of z.coerce.number(), for decimal literals: whether it is a
\* number, whether that number is an integer, and its integer part.
NumberOf(value) ==
  LET t == TrimRight(TrimLeft(value))
      dots == {i \in DOMAIN t : t[i] = "."}
      dot == IF dots = {} THEN Len(t) + 1 ELSE CHOOSE i \in dots : TRUE
      whole == SubSeq(t, 1, dot - 1)
      frac == SubSeq(t, dot + 1, Len(t))
  IN IF t = <<>> THEN [nan |-> FALSE, int |-> TRUE, n |-> 0]
     ELSE IF /\ Cardinality(dots) <= 1
             /\ IsDigits(whole) /\ IsDigits(frac)
             /\ Len(whole) + Len(frac) > 0
       THEN [nan |-> FALSE, int |-> \A i \in DOMAIN frac : frac[i] = "0", n |-> ParseInt(whole)]
     ELSE [nan |-> TRUE, int |-> FALSE, n |-> 0]

\* The issue zod raises for a field declared z.coerce.number().int().
IntIssue(kv, key, name) ==
  IF key \notin DOMAIN kv THEN <<name \o ": Expected number, received nan">>
  ELSE IF NumberOf(kv[key]).nan THEN <<name \o ": Expected number, received nan">>
  ELSE IF ~NumberOf(kv[key]).int THEN <<name \o ": Expected integer, received float">>
  ELSE <<>>

\* The issues of a schema that rejects the keys it does not know.
SchemaIssuesStrict(kv) ==
  IntIssue(kv, Key.ImageHeight, "ImageHeight") \o IntIssue(kv, Key.ImageWidth, "ImageWidth")
    \o (IF DOMAIN kv \subseteq SchemaKeys THEN <<>> ELSE <<"Unrecognized key(s) in object">>)

\* A schema whose sizes are numbers, integers or not.
SchemaIssuesAnyNumber(kv) ==
  SelectSeq(IntIssue(kv, Key.ImageHeight, "ImageHeight") \o IntIssue(kv, Key.ImageWidth, "ImageWidth"),
            LAMBDA m : m \notin {"ImageHeight: Expected integer, received float",
                                 "ImageWidth: Expected integer, received float"})

\* metadataSchema.safeParse(kv): every value of kv is a string, so only the
\* two coerced integers can raise an issue; unknown keys are stripped.
SchemaIssues(kv) ==
  IntIssue(kv, Key.ImageHeight, "ImageHeight") \o IntIssue(kv, Key.ImageWidth, "ImageWidth")

\* data.X of the parsed object: undefined for a key that is not there.
Field(kv, key) == IF key \in DOMAIN kv THEN [k |-> "str", v |-> kv[key]] ELSE Undef

\* The characters that /^([\d.]+) mm/ captures, <<>> if it does not match.
FocalCapture(value) ==
  LET run == {n \in 0..Len(value) : \A i \in 1..n : value[i] \in Digits \cup {"."}}
      n == CHOOSE m \in run : \A x \in run : x <= m
  IN IF n >= 1 /\ Len(value) >= n + 3 /\ SubSeq(value, n + 1, n + 3) = <<" ", "m", "m">>
       THEN SubSeq(value, 1, n)
       ELSE <<>>

\* Number.parseFloat of such a capture: the digits up to a second '.'.
ParseFloat(cs) ==
  LET dots == {i \in DOMAIN cs : cs[i] = "."}
      second == IF Cardinality(dots) < 2 THEN Len(cs) + 1
                ELSE CHOOSE i \in dots : Cardinality({k \in dots : k < i}) = 1
      used == SubSeq(cs, 1, second - 1)
  IN IF \E i \in DOMAIN used : used[i] \in Digits
       THEN [k |-> "float", v |-> used]
       ELSE [k |-> "float", v |-> <<"NaN">>]

\* A choice of location that takes Location whenever it is there.
LocationFirst(kv) ==
  IF Key.Location \in DOMAIN kv THEN Field(kv, Key.Location) ELSE Field(kv, Key.Sublocation)

\* `location`: data.Location || data.Sublocation, and data.Sublocation when
\* both are there and it is the longer one.
LocationOf(kv) ==
  IF /\ Key.Location \in DOMAIN kv /\ Key.Sublocation \in DOMAIN kv
     /\ Len(kv[Key.Sublocation]) > Len(kv[Key.Location])
    THEN Field(kv, Key.Sublocation)
  ELSE IF Key.Location \in DOMAIN kv THEN Field(kv, Key.Location)
  ELSE Field(kv, Key.Sublocation)

MetadataFailure(msg) == [success |-> FALSE, error |-> msg, metadata |-> <<>>]

\* parseExiftoolMetadata(raw), raw given as raw.split('\n').
ParseExiftoolMetadata(lines, engine) ==
  LET kv == Kv(lines)
      issues == SchemaIssues(kv)
      data(key) == Field(kv, key)
      r == ToDate(kv[Key.DateTimeOriginal],
                  IF Key.OffsetTimeOriginal \in DOMAIN kv THEN kv[Key.OffsetTimeOriginal] ELSE NoOffset,
                  engine)
      dated == Key.DateTimeOriginal \in DOMAIN kv /\ r.success
      focal == IF Key.FocalLength \in DOMAIN kv THEN FocalCapture(kv[Key.FocalLength]) ELSE <<>>
  IN IF NoPairs(kv) THEN MetadataFailure("Could not parse metadata")
     ELSE IF issues # <<>>
       THEN MetadataFailure("Failed to validate metadata: " \o JoinLines(issues))
     ELSE [success |-> TRUE, error |-> "",
           metadata |->
             [cameraMake |-> data(Key.Make),
              cameraModel |-> data(Key.Model),
              cameraProfile |-> data(Key.CameraProfile),
              date |-> IF dated THEN DateV(r.date) ELSE Undef,
              description |-> data(Key.CaptionAbstract),
              exposureTime |-> data(Key.ExposureTime),
              fNumber |-> data(Key.FNumber),
              focalLength |-> IF focal # <<>> THEN ParseFloat(focal) ELSE Undef,
              height |-> Num(NumberOf(kv[Key.ImageHeight]).n),
              iso |-> data(Key.ISO),
              lensMake |-> data(Key.LensMake),
              lensModel |-> data(Key.LensModel),
              localDate |-> IF dated THEN Arr(r.localDate) ELSE Undef,
              location |-> LocationOf(kv),
              title |-> data(Key.ObjectName),
              width |-> Num(NumberOf(kv[Key.ImageWidth]).n)]]

\* Lines of exiftool output, and lines that are none.
Line ==
  [Width |-> <<"I", "m", "a", "g", "e", "W", "i", "d", "t", "h", " ", " ", ":", " ", "5", "9", "7", "0">>,
   Height |-> <<"I", "m", "a", "g", "e", "H", "e", "i", "g", "h", "t", " ", ":", " ", "3", "9", "8", "0">>,
   HeightFloat |-> <<"I", "m", "a", "g", "e", "H", "e", "i", "g", "h", "t", " ", ":", " ", "3", "9", ".", "5">>,
   WidthWord |-> <<"I", "m", "a", "g", "e", "W", "i", "d", "t", "h", " ", ":", " ", "w", "i", "d", "e">>,
   WidthSpaced |-> <<"I", "m", "a", "g", "e", " ", "W", "i", "d", "t", "h", " ", ":", " ", "8", ".", "0">>,
   WidthTab |-> <<"I", "m", "a", "g", "e", "W", "i", "d", "t", "h", "\t", ":", " ", "5", "9", "7", "0">>,
   Make |-> <<"M", "a", "k", "e", " ", ":", " ", "F", "U", "J", "I">>,
   Location |-> <<"L", "o", "c", "a", "t", "i", "o", "n", " ", ":", " ", "B", "a", "y">>,
   LocationLong |-> <<"L", "o", "c", "a", "t", "i", "o", "n", " ", ":", " ", "H", "a", "r", "b", "o", "u", "r", "s", "i", "d", "e">>,
   DateBad |-> <<"D", "a", "t", "e", "T", "i", "m", "e", "O", "r", "i", "g", "i", "n", "a", "l", " ", ":", " ", "2", "0", "2", "4", ":", "1", "3", ":", "2", "5", " ", "1", "5", ":", "3", "5", ":", "0", "5">>,
   HeightUnderscore |-> <<"I", "m", "a", "g", "e", "_", "H", "e", "i", "g", "h", "t", " ", ":", " ", "3", "9", "8", "0">>,
   Sublocation |-> <<"S", "u", "b", "-", "l", "o", "c", "a", "t", "i", "o", "n", " ", ":", " ", "B", "e", "a", "c", "h">>,
   Focal |-> <<"F", "o", "c", "a", "l", "L", "e", "n", "g", "t", "h", " ", ":", " ", "3", "5", ".", "8", " ", "m", "m", " ", "(", "3", "5", " ", "m", "m", ")">>,
   Date |-> <<"D", "a", "t", "e", "T", "i", "m", "e", "O", "r", "i", "g", "i", "n", "a", "l", " ", ":", " ", "2", "0", "2", "4", ":", "0", "5", ":", "2", "5", " ", "1", "5", ":", "3", "5", ":", "0", "5">>,
   Offset |-> <<"O", "f", "f", "s", "e", "t", "T", "i", "m", "e", "O", "r", "i", "g", "i", "n", "a", "l", " ", ":", " ", "-", "0", "5", ":", "0", "0">>,
   Extra |-> <<"S", "o", "m", "e", "A", "d", "d", "i", "t", "i", "o", "n", "a", "l", "K", "e", "y", " ", ":", " ", "x">>,
   Other |-> <<"A", "n", "o", "t", "h", "e", "r", "U", "n", "u", "s", "e", "d", "K", "e", "y", " ", ":", " ", "y">>,
   Garbage |-> <<"g", "a", "r", "b", "a", "g", "e", " ", "t", "e", "x", "t">>,
   NoSpace |-> <<"M", "a", "k", "e", ":", "F", "U", "J", "I">>,
   Empty |-> <<>>]

LineInputs == {Line[n] : n \in DOMAIN Line}

\* ------------------------------------------------------------------ state
VARIABLES
  fn,             \* the function of metadata.ts that is called
  libPc,          \* "idle", "called" or "returned"
  dto,            \* toDate's dto
  oto,            \* toDate's oto
  raw,            \* parseExiftoolMetadata's raw, split into lines
  ret,            \* what the function returned
  lenient,        \* the engine's Date counts a day past the end of a month on
  argv,           \* the target arguments of the command line
  cmdPc,          \* where Process.run is
  errors,         \* Process.run's `errors`
  reported,       \* the message Process.run handed to this.error
  variant,        \* which revision of process.ts runs
  targets,        \* the parsed targets, in argument order
  params,         \* GlobalParams
  inFs,           \* input directory: file -> content
  outFs,          \* output directory: path -> file
  reportFile,     \* the file at params.outMetadata
  run,            \* number of invocations started so far
  pc,             \* where processMany is
  error,          \* why processMany rejected, "" if it did not
  inFiles,        \* result of the input glob
  inHashes,       \* hashed revision: one hash per input file
  processJobs,    \* the planned jobs
  jpc,            \* per job: where processOne is
  skipped,        \* per job: processOne's `skipped`
  existed,        \* per job: existsSync(job.outPath) when the job started
  calls,          \* per job: the external tools invoked, in order
  tmp,            \* per job: the temporary file of tmp.withFile exists
  processResults, \* the results of Promise.all(processWip)
  report,         \* saveMetadataReport's `report`
  saveState,      \* where saveMetadataReport is
  parsed,         \* the existing report as saveMetadataReport read it
  deleted,        \* keys logged as deleted from the existing report
  saveError,      \* why saveMetadataReport rejected, "" if it did not
  unknownFiles,   \* files still to unlink
  unlinked,       \* files unlinked by this run
  log,            \* console.log lines of this run that matter
  prevStatus,     \* how the previous invocation ended
  prevOut,        \* the output directory as the previous invocation left it
  runIn,          \* the input directory as this invocation found it
  prevIn          \* the input directory as the previous invocation found it

libVars == <<fn, libPc, dto, oto, raw, ret, lenient>>
cmdVars == <<argv, cmdPc, errors, reported>>
cfgVars == <<variant, targets, params>>
fsVars == <<inFs, outFs, reportFile>>
planVars == <<inFiles, inHashes, processJobs>>
jobVars == <<jpc, skipped, existed, calls, tmp>>
saveVars == <<report, saveState, parsed, deleted, saveError>>
delVars == <<unknownFiles, unlinked>>
histVars == <<prevStatus, prevOut, runIn, prevIn>>

vars == <<fn, libPc, dto, oto, raw, ret, lenient,
          argv, cmdPc, errors, reported,
          variant, targets, params, inFs, outFs, reportFile, run, pc, error,
          inFiles, inHashes, processJobs, jpc, skipped, existed, calls, tmp,
          processResults, report, saveState, parsed, deleted, saveError,
          unknownFiles, unlinked,
          log, prevStatus, prevOut, runIn, prevIn>>

\* ---------------------------------------------------------- initial states
EmptyReport == [has |-> {"original", "processed"}, original |-> EmptyMap, processed |-> EmptyMap]

NoFile == [kind |-> "absent", has |-> {}, original |-> EmptyMap, processed |-> EmptyMap]

Garbage == [kind |-> "garbage", has |-> {}, original |-> EmptyMap, processed |-> EmptyMap]

\* `parsed` before the existing report was read.
Unread == [kind |-> "unread", has |-> {}, original |-> EmptyMap, processed |-> EmptyMap]

\* Report files found by the first run: none, not JSON, JSON without one of
\* the maps, and well-formed reports of an earlier state of the directory,
\* whose entries of originals have a field ("note") added by hand.
ExistingReports ==
  LET OldOriginal ==
        [width |-> Num(7), cameraMake |-> Str(9), date |-> Str(8), note |-> Str(6),
         localDate |-> Arr(<<2020, 1, 2, 3, 4, 5>>)]
      OldProcessed == [height |-> Num(3), original |-> Str(1), width |-> Num(4)]
      OldOriginalMap == [key \in {"a.jpg", "gone.jpg"} |-> OldOriginal]
      OldProcessedMap == [key \in {"a_t.jpg", "gone_t.jpg"} |-> OldProcessed]
  IN {NoFile, Garbage}
     \cup {[kind |-> "json", has |-> h,
            original |-> IF "original" \in h THEN OldOriginalMap ELSE EmptyMap,
            processed |-> IF "processed" \in h THEN OldProcessedMap ELSE EmptyMap] :
           h \in SUBSET {"original", "processed"}}

Flags ==
  {[files |-> [deleteUnknown |-> d, reprocessExisting |-> r],
    outMetadata |-> m, preserveMetadata |-> k, noTable |-> FALSE] :
   d \in BOOLEAN, r \in BOOLEAN, m \in BOOLEAN, k \in BOOLEAN}

\* The input directory: some images, at most MaxFiles, beside a text file.
Listings == {l \cup {FileTxt} : l \in {m \in SUBSET {FileA, FileAB, FileC} : Cardinality(m) <= MaxFiles}}

RECURSIVE SeqsOver(_, _)
SeqsOver(S, n) ==
  IF n = 0 THEN {<<>>}
  ELSE LET shorter == SeqsOver(S, n - 1)
       IN shorter \cup {Append(q, x) : q \in {r \in shorter : Len(r) = n - 1}, x \in S}

\* Target lists of the command line: at least one target, names unique.
TargetLists(S) ==
  {q \in SeqsOver(S, MaxTargets) :
     /\ Len(q) >= 1
     /\ \A i, j \in DOMAIN q : i # j => q[i].name # q[j].name}

StaleOut == [p \in {"out/old_t.jpg", "out/notes.txt"} |->
               StaleFile(IF p = "out/old_t.jpg" THEN ".jpg" ELSE ".txt")]

InitRest ==
  /\ cmdPc = "parse"
  /\ errors = <<>>
  /\ reported = ""
  /\ targets = <<>>
  /\ run = 0
  /\ pc = "idle"
  /\ error = ""
  /\ inFiles = <<>>
  /\ inHashes = <<>>
  /\ processJobs = <<>>
  /\ jpc = <<>>
  /\ skipped = <<>>
  /\ existed = <<>>
  /\ calls = <<>>
  /\ tmp = <<>>
  /\ processResults = <<>>
  /\ report = EmptyReport
  /\ saveState = "none"
  /\ parsed = Unread
  /\ deleted = {}
  /\ saveError = ""
  /\ unknownFiles = {}
  /\ unlinked = {}
  /\ log = {}
  /\ prevStatus = "none"
  /\ prevOut = outFs
  /\ runIn = inFs
  /\ prevIn = inFs

\* Runs over many shapes of input directory and target list.
InitPlans ==
  /\ variant \in {"plain", "hashed"}
  /\ argv \in {RawArgs(q) : q \in TargetLists({TargetT, TargetBT})}
  /\ params \in {f \in Flags : ~f.outMetadata /\ ~f.preserveMetadata
                                /\ ~f.files.reprocessExisting /\ f.files.deleteUnknown}
  /\ inFs \in {[f \in l |-> 1] : l \in Listings}
  /\ Len(GlobIn(DOMAIN inFs)) * Len(argv) <= MaxPlan
  /\ outFs = StaleOut
  /\ reportFile = NoFile
  /\ InitRest

\* Runs under every combination of the flags that steer the jobs.
InitFlags ==
  /\ variant \in {"plain", "hashed"}
  /\ argv \in {RawArgs(q) : q \in {<<TargetT>>, <<TargetS>>, <<TargetH>>}}
  /\ params \in {f \in Flags : ~f.outMetadata}
  /\ inFs \in {[f \in l |-> 1] : l \in {{FileA, FileTxt}, {FileA, FileC}}}
  /\ outFs = StaleOut
  /\ reportFile = NoFile
  /\ InitRest

\* Runs that write a report, over many shapes of existing report; the hashed
\* revision also finds a file that is JSON but no object (a number, null).
InitReports ==
  /\ variant \in Variants
  /\ argv = RawArgs(<<TargetT>>)
  /\ params \in {f \in Flags : f.outMetadata /\ ~f.preserveMetadata
                                /\ ~f.files.reprocessExisting}
  /\ inFs \in {[f \in l |-> 1] : l \in {{FileA}, {FileA, FileC}}}
  /\ outFs = StaleOut
  /\ reportFile \in ExistingReports
       \cup (IF variant = "hashed"
              THEN {[kind |-> "scalar", has |-> {}, original |-> EmptyMap,
                     processed |-> EmptyMap]}
              ELSE {})
  /\ InitRest

\* Command lines with at least one malformed target argument.
InitArgs ==
  /\ variant \in {"plain", "hashed"}
  /\ argv \in {q \in SeqsOver({RawOf(TargetT), RawOf(TargetS)} \cup RawBad,
                              MaxArgs) :
                 \E i \in DOMAIN q : ~ParseTarget(q[i]).success}
  /\ params \in {f \in Flags : f.outMetadata /\ ~f.preserveMetadata
                                /\ ~f.files.reprocessExisting /\ f.files.deleteUnknown}
  /\ inFs = [f \in {FileA} |-> 1]
  /\ outFs = StaleOut
  /\ reportFile = NoFile
  /\ InitRest

NoReturn == [success |-> FALSE, error |-> "pending"]

\* No function of metadata.ts is being called.
LibIdle ==
  /\ fn = "none"
  /\ libPc = "idle"
  /\ dto = <<>>
  /\ oto = <<>>
  /\ raw = <<>>
  /\ ret = NoReturn
  /\ lenient = FALSE

Init == (InitPlans \/ InitFlags \/ InitReports \/ InitArgs) /\ LibIdle

\* ------------------------------------------------- calls into metadata.ts
mainVars == <<cmdVars, cfgVars, fsVars, run, pc, error, planVars, jobVars,
              processResults, saveVars, delVars, log, histVars>>

\* The command is not running.
MainIdle ==
  /\ variant = "plain"
  /\ argv = RawArgs(<<TargetT>>)
  /\ params \in {f \in Flags : ~f.outMetadata /\ ~f.preserveMetadata
                                /\ ~f.files.reprocessExisting /\ ~f.files.deleteUnknown}
  /\ inFs = [f \in {FileA} |-> 1]
  /\ outFs = StaleOut
  /\ reportFile = NoFile
  /\ InitRest

\* toDate is called on a DateTimeOriginal and an OffsetTimeOriginal.
InitToDate ==
  /\ fn = "toDate"
  /\ libPc = "called"
  /\ dto \in {DtoOf(c) : c \in DtoFields} \cup MalformedDtos
  /\ oto \in OffsetInputs
  /\ raw = <<>>
  /\ ret = NoReturn
  /\ lenient \in BOOLEAN

\* The output of exiftool: the lines of the two sizes, in either order, one of
\* them or none, followed by at most MaxLines other lines.
RawInputs ==
  {IF b \o x = <<>> THEN <<Line.Empty>> ELSE b \o x :
     b \in {<<>>, <<Line.Width>>, <<Line.Height>>, <<Line.Width, Line.Height>>,
            <<Line.Height, Line.Width>>},
     x \in SeqsOver(LineInputs, MaxLines)}

\* parseExiftoolMetadata is called on the output of exiftool.
InitParse ==
  /\ fn = "parseExiftoolMetadata"
  /\ libPc = "called"
  /\ raw \in RawInputs
  /\ dto = <<>>
  /\ oto = <<>>
  /\ ret = NoReturn
  /\ lenient \in BOOLEAN

InitMeta == (InitToDate \/ InitParse) /\ MainIdle

CallToDate ==
  /\ fn = "toDate"
  /\ libPc = "called"
  /\ ret' = ToDate(dto, oto, lenient)
  /\ libPc' = "returned"
  /\ UNCHANGED <<fn, dto, oto, raw, lenient, mainVars>>

CallParse ==
  /\ fn = "parseExiftoolMetadata"
  /\ libPc = "called"
  /\ ret' = ParseExiftoolMetadata(raw, lenient)
  /\ libPc' = "returned"
  /\ UNCHANGED <<fn, dto, oto, raw, lenient, mainVars>>

NextMeta ==
  \/ CallToDate
  \/ CallParse

SpecMeta == InitMeta /\ [][NextMeta]_vars

\* -------------------------------------------------------------- Process.run
\* The command parses every target argument, reports the errors of all that
\* failed, and calls processMany when none did.
RunCommand ==
  /\ cmdPc = "parse"
  /\ LET rawTargets == [i \in DOMAIN argv |-> ParseTarget(argv[i])]
         errs == CollectErrors(rawTargets)
     IN /\ errors' = errs
        /\ reported' = JoinLines(errs)
        /\ cmdPc' = IF Len(errs) > 0 THEN "error" ELSE "processMany"
        /\ targets' = IF Len(errs) > 0 THEN targets
                      ELSE [i \in DOMAIN rawTargets |-> rawTargets[i].target]
  /\ UNCHANGED <<libVars, argv, variant, params, fsVars, run, pc, error, planVars, jobVars,
                 processResults, saveVars, delVars, log, histVars>>

\* ------------------------------------------------------------ processMany
\* The per-run state before any job exists.
ResetRun ==
  /\ processResults' = <<>>
  /\ report' = EmptyReport
  /\ saveState' = "none"
  /\ parsed' = Unread
  /\ deleted' = {}
  /\ saveError' = ""
  /\ unknownFiles' = {}
  /\ unlinked' = {}
  /\ log' = {}

\* The jobs are planned and handed to the pool: all of them are queued.
Planned(jobs) ==
  /\ processJobs' = jobs
  /\ jpc' = [j \in DOMAIN jobs |-> "queued"]
  /\ skipped' = [j \in DOMAIN jobs |-> TRUE]
  /\ existed' = [j \in DOMAIN jobs |-> FALSE]
  /\ calls' = [j \in DOMAIN jobs |-> <<>>]
  /\ tmp' = [j \in DOMAIN jobs |-> FALSE]

\* A test of the glob result that never finds it empty.
NoneFoundNever(files) == FALSE

\* `if (inFiles.length === 0) throw new Error('No images found ...')`.
NoneFound(files) == Len(files) = 0

\* The command is invoked: glob the input directory, fail on no image,
\* otherwise gather the jobs (after hashing, in the hashed revision).
StartRun ==
  /\ cmdPc = "processMany"
  /\ pc \in {"idle", "done", "exited"}
  /\ saveState \in {"none", "written", "failed"}
  /\ run < MaxRuns
  /\ run = 0 \/ Len(processJobs) <= MaxRerunJobs
  /\ run' = run + 1
  /\ prevStatus' = pc
  /\ prevOut' = outFs
  /\ inFiles' = GlobIn(DOMAIN inFs)
  /\ inHashes' = [i \in DOMAIN inFiles' |-> ""]
  /\ ResetRun
  /\ error' = IF NoneFound(inFiles') THEN "No images found" ELSE ""
  /\ IF NoneFound(inFiles')
       THEN /\ pc' = "failed"
            /\ Planned(<<>>)
       ELSE IF variant = "hashed"
         THEN /\ pc' = "hash"
              /\ Planned(<<>>)
         ELSE /\ pc' = "jobs"
              /\ Planned(GatherJobs(variant, inFiles', inHashes', targets, params))
  /\ runIn' = inFs
  /\ prevIn' = runIn
  /\ UNCHANGED <<libVars, cmdVars, cfgVars, fsVars>>

\* Hashed revision: sha256sum of every input file, then the jobs are gathered.
HashInputs ==
  /\ pc = "hash"
  /\ inHashes' = [i \in DOMAIN inFiles |-> Sha8(inFs[inFiles[i]])]
  /\ Planned(GatherJobs(variant, inFiles, inHashes', targets, params))
  /\ pc' = "jobs"
  /\ UNCHANGED <<libVars, cmdVars, cfgVars, fsVars, run, error, inFiles, processResults, saveVars,
                 delVars, log, histVars>>

\* sha256sum fails for some file: processMany rejects before any job exists.
HashFail ==
  /\ pc = "hash"
  /\ pc' = "failed"
  /\ error' = "sha256sum"
  /\ UNCHANGED <<libVars, cmdVars, cfgVars, fsVars, run, planVars, jobVars, processResults, saveVars,
                 delVars, log, histVars>>

\* -------------------------------------------------------------- processOne
InFlight(j) == jpc[j] \in {"resize", "compress", "exif", "stat"}

\* A pool without a limit.
PoolHasRoomAlways == TRUE

\* pLimit(os.cpus().length): a function handed to the pool starts when fewer
\* than that many are running.
PoolHasRoom == Cardinality({k \in DOMAIN jpc : InFlight(k)}) < Cpus

\* A temporary file that is never removed.
ReleasedNever(t, j) == t

\* tmp.withFile removes the temporary file when its callback has resolved or
\* rejected.
Released(t, j) == [t EXCEPT ![j] = FALSE]

\* processOne with the test of the flag and of the file confused.
MustProcessBoth(reprocessExisting, exists) == reprocessExisting /\ ~exists

\* processOne that never skips.
MustProcessAlways(reprocessExisting, exists) == TRUE

\* The condition under which processOne does the work.
MustProcess(reprocessExisting, exists) == reprocessExisting \/ ~exists

Magick(job) ==
  [tool |-> "magick", src |-> InPath(job.inPath), arg |-> ResizeTo(job.target), dst |-> "tmp"]

Cjpegli(job) ==
  [tool |-> "cjpegli",
   src |-> IF ResizeTo(job.target) # "" THEN "tmp" ELSE InPath(job.inPath),
   arg |-> "", dst |-> job.outPath]

\* The metadata step with its two branches exchanged.
ExiftoolInverted(job) ==
  [tool |-> "exiftool",
   src |-> IF job.preserveMetadata THEN "" ELSE InPath(job.inPath),
   arg |-> IF job.preserveMetadata THEN "-all=" ELSE "-tagsfromfile",
   dst |-> job.outPath]

\* exiftool -tagsfromfile inPath -all:all outPath, or exiftool -all= outPath.
Exiftool(job) ==
  [tool |-> "exiftool",
   src |-> IF job.preserveMetadata THEN InPath(job.inPath) ELSE "",
   arg |-> IF job.preserveMetadata THEN "-tagsfromfile" ELSE "-all=",
   dst |-> job.outPath]

\* The pool admits the next queued job: processOne runs up to its first
\* external tool (or straight to the stats when the job is skipped).
StartJob(j) ==
  /\ pc \in {"jobs", "failed"}
  /\ j \in DOMAIN processJobs
  /\ jpc[j] = "queued"
  /\ \A i \in DOMAIN processJobs : i < j => jpc[i] # "queued"
  /\ PoolHasRoom
  /\ LET job == processJobs[j]
         exists == job.outPath \in DOMAIN outFs
         work == MustProcess(params.files.reprocessExisting, exists)
     IN /\ existed' = [existed EXCEPT ![j] = exists]
        /\ skipped' = [skipped EXCEPT ![j] = ~work]
        /\ tmp' = [tmp EXCEPT ![j] = work]
        /\ jpc' = [jpc EXCEPT ![j] =
                     IF ~work THEN "stat"
                     ELSE IF ResizeTo(job.target) # "" THEN "resize" ELSE "compress"]
        /\ calls' = [calls EXCEPT ![j] =
                       IF ~work THEN <<>>
                       ELSE IF ResizeTo(job.target) # "" THEN <<Magick(job)>>
                       ELSE <<Cjpegli(job)>>]
  /\ UNCHANGED <<libVars, cmdVars, cfgVars, fsVars, run, pc, error, planVars, processResults,
                 saveVars, delVars, log, histVars>>

\* magick wrote the resized temporary file; cjpegli is started on it.
ResizeOk(j) ==
  /\ pc \in {"jobs", "failed"}
  /\ j \in DOMAIN processJobs
  /\ jpc[j] = "resize"
  /\ jpc' = [jpc EXCEPT ![j] = "compress"]
  /\ calls' = [calls EXCEPT ![j] = Append(@, Cjpegli(processJobs[j]))]
  /\ UNCHANGED <<libVars, cmdVars, cfgVars, fsVars, run, pc, error, planVars, skipped, existed, tmp,
                 processResults, saveVars, delVars, log, histVars>>

\* cjpegli wrote the output file; the temporary file is released and
\* exiftool is started on the output.
CompressOk(j) ==
  /\ pc \in {"jobs", "failed"}
  /\ j \in DOMAIN processJobs
  /\ jpc[j] = "compress"
  /\ LET job == processJobs[j]
     IN /\ outFs' = (job.outPath :> Compressed(job, inFs[job.inPath])) @@ outFs
        /\ calls' = [calls EXCEPT ![j] = Append(@, Exiftool(job))]
  /\ tmp' = Released(tmp, j)
  /\ jpc' = [jpc EXCEPT ![j] = "exif"]
  /\ UNCHANGED <<libVars, cmdVars, cfgVars, inFs, reportFile, run, pc, error, planVars, skipped,
                 existed, processResults, saveVars, delVars, log, histVars>>

\* exiftool copied or stripped the tags of the output file.
ExifOk(j) ==
  /\ pc \in {"jobs", "failed"}
  /\ j \in DOMAIN processJobs
  /\ jpc[j] = "exif"
  /\ LET job == processJobs[j]
     IN outFs' = [outFs EXCEPT ![job.outPath] = WithTags(@, job.preserveMetadata)]
  /\ jpc' = [jpc EXCEPT ![j] = "stat"]
  /\ UNCHANGED <<libVars, cmdVars, cfgVars, inFs, reportFile, run, pc, error, planVars, skipped,
                 existed, calls, tmp, processResults, saveVars, delVars, log, histVars>>

\* The running external tool exits with an error: processOne rejects (the
\* temporary file is released on the way), and so does Promise.all.
ToolFail(j) ==
  /\ pc \in {"jobs", "failed"}
  /\ j \in DOMAIN processJobs
  /\ jpc[j] \in {"resize", "compress", "exif"}
  /\ jpc' = [jpc EXCEPT ![j] = "failed"]
  /\ tmp' = Released(tmp, j)
  /\ pc' = "failed"
  /\ error' = IF pc = "jobs" THEN calls[j][Len(calls[j])].tool ELSE error
  /\ UNCHANGED <<libVars, cmdVars, cfgVars, fsVars, run, planVars, skipped, existed, calls,
                 processResults, saveVars, delVars, log, histVars>>

\* stat of the input and of the output; processOne returns its result.
StatJob(j) ==
  /\ pc \in {"jobs", "failed"}
  /\ j \in DOMAIN processJobs
  /\ jpc[j] = "stat"
  /\ processJobs[j].outPath \in DOMAIN outFs
  /\ jpc' = [jpc EXCEPT ![j] = "done"]
  /\ UNCHANGED <<libVars, cmdVars, cfgVars, fsVars, run, pc, error, planVars, skipped, existed, calls,
                 tmp, processResults, saveVars, delVars, log, histVars>>

ResultOf(j) ==
  [inPath |-> processJobs[j].inPath,
   outPath |-> processJobs[j].outPath,
   skipped |-> skipped[j],
   target |-> processJobs[j].target.name]

\* Results that leave the skipped jobs out.
AllResultsWorkedOnly(jobs) ==
  FilterSeq([j \in DOMAIN jobs |-> ResultOf(j)],
            {ResultOf(j) : j \in {i \in DOMAIN jobs : ~skipped[i]}})

\* `await Promise.all(processWip)`: the result of every job, in job order.
AllResults(jobs) == [j \in DOMAIN jobs |-> ResultOf(j)]

\* Promise.allSettled in its place: the run goes on when every job is done
\* or has failed.
JobsSettled ==
  /\ pc \in {"jobs", "failed"}
  /\ \A j \in DOMAIN processJobs : jpc[j] \in {"done", "failed"}
  /\ processResults' = AllResults(processJobs)
  /\ pc' = IF params.outMetadata THEN "report" ELSE "table"
  /\ UNCHANGED <<libVars, cmdVars, cfgVars, fsVars, run, error, planVars, jobVars, saveVars, delVars,
                 log, histVars>>

\* Promise.all(processWip) resolves: one result per job, in job order.
JobsDone ==
  /\ pc = "jobs"
  /\ \A j \in DOMAIN processJobs : jpc[j] = "done"
  /\ processResults' = AllResults(processJobs)
  /\ pc' = IF params.outMetadata THEN "report" ELSE "table"
  /\ UNCHANGED <<libVars, cmdVars, cfgVars, fsVars, run, error, planVars, jobVars, saveVars, delVars,
                 log, histVars>>

\* The rejected command ends the process: what is in flight is killed, what
\* is queued never starts.
Exit ==
  /\ pc = "failed"
  /\ pc' = "exited"
  /\ jpc' = [j \in DOMAIN jpc |->
               IF InFlight(j) THEN "killed" ELSE jpc[j]]
  /\ UNCHANGED <<libVars, cmdVars, cfgVars, fsVars, run, error, planVars, skipped, existed, calls, tmp,
                 processResults, saveVars, delVars, log, histVars>>

\* ------------------------------------------------------ saveMetadataReport
\* No revision awaits the report.
AwaitedNever == FALSE

Awaited == variant # "plain"

OutNames == {OutNameOf(variant, processJobs[j].inPath, processJobs[j].target,
                       inHashes[(j - 1) \div Len(targets) + 1]) : j \in DOMAIN processJobs}

\* The last job, in job order, that has the given output path.
LastJobOf(p) ==
  CHOOSE j \in DOMAIN processJobs :
    /\ processJobs[j].outPath = p
    /\ \A i \in DOMAIN processJobs : processJobs[i].outPath = p => i <= j

ProcessedEntry(j) ==
  LET x == outFs[processJobs[j].outPath]
  IN [height |-> Num(OutWidth(x) + 1),
      original |-> Str(CHOOSE i \in DOMAIN GlobOrder : GlobOrder[i] = processJobs[j].inPath),
      width |-> Num(OutWidth(x))]

\* console.error(`Failed to read metadata for ${inPath}: ...`).
FailedToRead(f) == "Failed to read metadata for " \o InPath(f)

\* A collection that keeps an entry for a file whose metadata was not read.
MetadatasOfAll(bad) ==
  [f \in {inFiles[i] : i \in DOMAIN inFiles} |-> MetaOf(inFs[f])]

\* `metadatas`: the metadata of every input file readMetadata succeeded on.
Metadatas(bad) ==
  [f \in {inFiles[i] : i \in DOMAIN inFiles} \ bad |-> MetaOf(inFs[f])]

\* `original`: the same entries, keyed by the path relative to inDir.
Originals(metadatas) ==
  [key \in {RelPath(f) : f \in DOMAIN metadatas} |->
     metadatas[CHOOSE f \in DOMAIN metadatas : RelPath(f) = key]]

\* readMetadata of every input file; a file whose output cannot be parsed is
\* logged and left out of `original`.
ReadOriginals ==
  /\ pc = "report"
  /\ saveState = "none"
  /\ \E bad \in SUBSET {inFiles[i] : i \in DOMAIN inFiles} :
       /\ report' = [report EXCEPT !.original = Originals(Metadatas(bad))]
       /\ log' = log \cup {FailedToRead(f) : f \in bad}
                    \cup (IF Awaited THEN {} ELSE {"Saved metadata report"})
  /\ saveState' = "readOut"
  /\ pc' = IF Awaited THEN pc ELSE "table"
  /\ UNCHANGED <<libVars, cmdVars, cfgVars, fsVars, run, error, planVars, jobVars, processResults,
                 parsed, deleted, saveError, delVars, histVars>>

\* readMetadata of every output file, keyed by its path relative to outDir.
ReadProcessed ==
  /\ saveState = "readOut"
  /\ report' = [report EXCEPT !.processed =
                  [key \in OutNames |-> ProcessedEntry(LastJobOf(PathJoin(OutDir, key)))]]
  /\ saveState' = "write"
  /\ UNCHANGED <<libVars, cmdVars, cfgVars, fsVars, run, pc, error, planVars, jobVars, processResults,
                 parsed, deleted, saveError, delVars, log, histVars>>

\* Every report that is a JSON object can be used.
UsableIfObject(file) == file.kind = "json"

\* The existing report can be used: it is read, parsed and, in the hashed
\* revision, has both maps (Object.keys of a missing map throws).
Usable(file) ==
  /\ file.kind = "json"
  /\ variant = "hashed" => file.has = {"original", "processed"}

Parsed(file) == [has |-> file.has, original |-> file.original, processed |-> file.processed]

Pruned(old, new) ==
  [has |-> old.has,
   original |-> PruneMap(old.original, DOMAIN new.original),
   processed |-> PruneMap(old.processed, DOMAIN new.processed)]

\* The keys logged as deleted.
DeletedKeys(file, new) ==
  IF variant = "hashed" /\ Usable(file)
    THEN StaleKeys(file.original, DOMAIN new.original)
         \cup StaleKeys(file.processed, DOMAIN new.processed)
    ELSE {}

\* The merge with its two arguments exchanged: deepmerge(parsed, report).
MergedWithSwapped(file, new) ==
  IF variant = "hashed" THEN DeepMerge(Pruned(Parsed(file), new), new)
  ELSE DeepMerge(Parsed(file), new)

\* No merge at all: the new report as it is.
MergedWithNothing(file, new) == new

\* deepmerge(report, parsed), after the pruning of the hashed revision.
MergedWith(file, new) ==
  IF variant = "hashed" THEN DeepMerge(new, Pruned(Parsed(file), new))
  ELSE DeepMerge(new, Parsed(file))

\* A catch block that forgets the new report.
ToWriteLostOnCatch(file, new) ==
  IF variant = "plain" THEN new
  ELSE IF ~Usable(file) THEN EmptyReport
  ELSE MergedWith(file, new)

\* `toWrite`: the new report, merged with the existing one when it is usable.
ToWrite(file, new) ==
  IF variant = "plain" \/ ~Usable(file) THEN new
  ELSE MergedWith(file, new)

\* The existing report is read and merged, and the result is written.
WriteReport ==
  /\ saveState = "write"
  /\ parsed' = reportFile
  /\ deleted' = DeletedKeys(reportFile, report)
  /\ reportFile' = Stringify(ToWrite(reportFile, report))
  /\ saveState' = "written"
  /\ pc' = IF Awaited THEN "table" ELSE pc
  /\ log' = IF Awaited THEN log \cup {"Saved metadata report"} ELSE log
  /\ UNCHANGED <<libVars, cmdVars, cfgVars, inFs, outFs, run, error, planVars, jobVars, processResults,
                 report, saveError, delVars, histVars>>

\* mkdir or writeFile fails after the merge: saveMetadataReport rejects.
WriteFail ==
  /\ saveState = "write"
  /\ parsed' = reportFile
  /\ deleted' = DeletedKeys(reportFile, report)
  /\ saveState' = "failed"
  /\ saveError' = "writeFile"
  /\ pc' = IF Awaited THEN "failed" ELSE pc
  /\ error' = IF Awaited THEN "writeFile" ELSE error
  /\ UNCHANGED <<libVars, cmdVars, cfgVars, fsVars, run, planVars, jobVars, processResults, report,
                 delVars, log, histVars>>

\* exiftool exits with an error on an input or an output file, or the
\* metadata of an output file cannot be parsed and the callback throws
\* 'Failed to read metadata for ...': the promise of the report rejects.
ReadFail ==
  /\ \/ saveState = "readOut"
     \/ pc = "report" /\ saveState = "none"
  /\ saveState' = "failed"
  /\ \E why \in {"readMetadata"}
                 \cup (IF saveState = "readOut"
                        THEN {"Failed to read metadata for " \o processResults[i].outPath :
                                i \in DOMAIN processResults}
                        ELSE {}) :
       /\ saveError' = why
       /\ error' = IF Awaited \/ saveState = "none" THEN why ELSE error
  /\ pc' = IF Awaited \/ saveState = "none" THEN "failed" ELSE pc
  /\ UNCHANGED <<libVars, cmdVars, cfgVars, fsVars, run, planVars, jobVars, processResults, report,
                 parsed, deleted, delVars, log, histVars>>

\* ------------------------------------------------------------ results table
\* localeCompare on the input paths of the model.
LocaleRank(f) == IF f = FileAB THEN 1 ELSE IF f = FileA THEN 2 ELSE IF f = FileC THEN 3 ELSE 4

IndexOf(names, name) ==
  IF \E i \in DOMAIN names : names[i] = name
    THEN CHOOSE i \in DOMAIN names : names[i] = name /\ \A k \in DOMAIN names : names[k] = name => i <= k
    ELSE 0

\* a sorts before b.
Before(a, b, names) ==
  \/ LocaleRank(a.inPath) < LocaleRank(b.inPath)
  \/ /\ LocaleRank(a.inPath) = LocaleRank(b.inPath)
     /\ IndexOf(names, a.target) < IndexOf(names, b.target)

\* No sort: the results as Promise.all gave them.
SortResultsNot(rs, names) == rs

\* processResults.sort(...), a stable sort.
SortResults(rs, names) ==
  LET pos(i) == 1 + Cardinality({k \in DOMAIN rs :
                     \/ Before(rs[k], rs[i], names)
                     \/ ~Before(rs[i], rs[k], names) /\ k < i})
  IN [q \in DOMAIN rs |-> rs[CHOOSE i \in DOMAIN rs : pos(i) = q]]

\* A deletion that does not look at the flag.
DeleteAlways(prm) == TRUE

\* `if (params.files.deleteUnknown)`.
DeleteRequested(prm) == prm.files.deleteUnknown

PrintTable ==
  /\ pc = "table"
  /\ processResults' = IF params.noTable /\ variant # "plain" THEN processResults
                       ELSE SortResults(processResults, [i \in DOMAIN targets |-> targets[i].name])
  /\ pc' = IF DeleteRequested(params) THEN "delete" ELSE "done"
  /\ UNCHANGED <<libVars, cmdVars, cfgVars, fsVars, run, error, planVars, jobVars, saveVars, delVars,
                 log, histVars>>

\* --------------------------------------------------------- delete unknown
GlobOut(fs) == {p \in DOMAIN fs : IsImageExt(fs[p].ext)}

KnownFiles == {processResults[i].outPath : i \in DOMAIN processResults}

\* A filter that keeps nothing to delete.
UnknownFilesNone(fs, known) == {}

UnknownFiles(fs, known) == {p \in GlobOut(fs) : p \notin known}

\* The output directory is globbed and the files no job produced are found.
FindUnknown ==
  /\ pc = "delete"
  /\ unknownFiles' = UnknownFiles(outFs, KnownFiles)
  /\ pc' = IF unknownFiles' = {} THEN "done" ELSE "unlink"
  /\ UNCHANGED <<libVars, cmdVars, cfgVars, fsVars, run, error, planVars, jobVars, processResults,
                 saveVars, unlinked, log, histVars>>

\* One unknown file is unlinked; after the last one processMany resolves.
Unlink(p) ==
  /\ pc = "unlink"
  /\ p \in unknownFiles
  /\ outFs' = [q \in (DOMAIN outFs) \ {p} |-> outFs[q]]
  /\ unknownFiles' = unknownFiles \ {p}
  /\ unlinked' = unlinked \cup {p}
  /\ pc' = IF unknownFiles' = {} THEN "done" ELSE pc
  /\ UNCHANGED <<libVars, cmdVars, cfgVars, inFs, reportFile, run, error, planVars, jobVars,
                 processResults, saveVars, log, histVars>>

\* ---------------------------------------------------------- environment
\* Between two invocations the user edits an input image.
EditInput(f) ==
  /\ pc \in {"done", "exited"}
  /\ saveState \in {"none", "written", "failed"}
  /\ run < MaxRuns
  /\ Len(processJobs) <= MaxRerunJobs
  /\ inFs = runIn
  /\ f \in DOMAIN inFs
  /\ IsImageExt(Extname(f))
  /\ inFs[f] <= MaxEdits
  /\ inFs' = [inFs EXCEPT ![f] = @ + 1]
  /\ UNCHANGED <<libVars, cmdVars, cfgVars, outFs, reportFile, run, pc, error, planVars, jobVars,
                 processResults, saveVars, delVars, log, histVars>>

\* --------------------------------------------------------- specification
JobStep ==
  \E j \in 1..(MaxFiles * MaxTargets) :
    \/ StartJob(j)
    \/ ResizeOk(j)
    \/ CompressOk(j)
    \/ ExifOk(j)
    \/ ToolFail(j)
    \/ StatJob(j)

Next ==
  \/ RunCommand
  \/ StartRun
  \/ HashInputs
  \/ HashFail
  \/ JobStep
  \/ JobsDone
  \/ Exit
  \/ ReadOriginals
  \/ ReadProcessed
  \/ WriteReport
  \/ WriteFail
  \/ ReadFail
  \/ PrintTable
  \/ FindUnknown
  \/ \E p \in DOMAIN outFs : Unlink(p)
  \/ \E f \in DOMAIN inFs : EditInput(f)

Spec == Init /\ [][Next]_vars

\* ------------------------------------------------------------------ claims
PlannedPaths == {processJobs[j].outPath : j \in DOMAIN processJobs}

DistinctPlan ==
  \A i, j \in DOMAIN processJobs : i # j => processJobs[i].outPath # processJobs[j].outPath

InputsUnchanged == runIn = prevIn

\* The output file an uninterrupted run leaves for a job.
Expected(job) == WithTags(Compressed(job, runIn[job.inPath]), job.preserveMetadata)

\* saveMetadataReport merged the new report with an existing one and wrote it.
Merged == saveState = "written" /\ variant # "plain" /\ Usable(parsed)

Sections == {"original", "processed"}

SharedKeys(sec) == (DOMAIN parsed[sec]) \cap (DOMAIN report[sec])

\* C1: no two jobs planned by one run have the same output path.
C1_DistinctOutPaths == DistinctPlan

\* C2: after a merge, every field the new run computed for a key of both
\* reports has the new run's value in the written report.
C2_NewTakesPrecedence ==
  Merged =>
    \A sec \in Sections : \A key \in SharedKeys(sec) :
      \A f \in DOMAIN report[sec][key] :
        report[sec][key][f].k # "undef" =>
          /\ f \in DOMAIN reportFile[sec][key]
          /\ reportFile[sec][key][f] = StringifyValue(report[sec][key][f])

C2_FieldKept(old, new, written, f) ==
  IF f \in DOMAIN old
    THEN /\ f \in DOMAIN written
         /\ written[f] = IF f \in DOMAIN new /\ old[f].k = "arr" /\ new[f].k = "arr"
                           THEN Arr(new[f].v \o old[f].v)
                           ELSE old[f]
    ELSE IF new[f].k = "undef" THEN f \notin DOMAIN written
         ELSE f \in DOMAIN written /\ written[f] = StringifyValue(new[f])

\* C2 (amended): after a merge, for every key of both reports, a field of the
\* existing entry keeps the existing value (two arrays become the new one
\* followed by the existing one), and a field only the new run computed has
\* the new run's value.
C2_ExistingTakesPrecedence ==
  Merged =>
    \A sec \in Sections : \A key \in SharedKeys(sec) :
      /\ key \in DOMAIN reportFile[sec]
      /\ \A f \in (DOMAIN parsed[sec][key]) \cup (DOMAIN report[sec][key]) :
           C2_FieldKept(parsed[sec][key], report[sec][key], reportFile[sec][key], f)

C2_Witness ==
  /\ Merged
  /\ \E key \in SharedKeys("original") :
       parsed.original[key].width # report.original[key].width

\* C3: a job that started is skipped exactly when reprocessExisting is false
\* and its output existed when it started; a skipped job invokes no tool and
\* its steps leave the output directory as it is.
C3_SkippedIffExisting ==
  /\ [](\A j \in DOMAIN processJobs :
          jpc[j] # "queued" =>
            /\ skipped[j] <=> (~params.files.reprocessExisting /\ existed[j])
            /\ skipped[j] => calls[j] = <<>>)
  /\ [][\A j \in (DOMAIN jpc) \cap (DOMAIN jpc') :
          (jpc[j] # jpc'[j] /\ skipped'[j] /\ processJobs' = processJobs)
            => outFs' = outFs]_vars

C3_Witness ==
  \E j \in DOMAIN processJobs :
    /\ jpc[j] = "done" /\ skipped[j] /\ existed[j]
    /\ \E i \in DOMAIN processJobs : jpc[i] = "done" /\ ~skipped[i]

\* C4: a run after a completed run over unchanged inputs, both with
\* reprocessExisting=false, skips every job and leaves every output file as
\* the first run left it.
C4_SecondRunSkipsAll ==
  (run >= 2 /\ prevStatus = "done" /\ ~params.files.reprocessExisting /\ InputsUnchanged) =>
    \A j \in DOMAIN processJobs :
      /\ jpc[j] # "queued" => skipped[j] /\ calls[j] = <<>>
      /\ processJobs[j].outPath \in DOMAIN prevOut
      /\ processJobs[j].outPath \in DOMAIN outFs
      /\ outFs[processJobs[j].outPath] = prevOut[processJobs[j].outPath]

C4_Witness ==
  /\ run >= 2 /\ prevStatus = "done" /\ ~params.files.reprocessExisting /\ InputsUnchanged
  /\ pc = "done"
  /\ Len(processJobs) >= 2
  /\ \A j \in DOMAIN processJobs : skipped[j]

\* C5: a run with reprocessExisting=false that completes after an aborted run
\* over the same inputs ends with the output files of an uninterrupted run.
C5_RestartGivesSameOutputs ==
  (run >= 2 /\ prevStatus = "exited" /\ pc = "done" /\ DistinctPlan
     /\ ~params.files.reprocessExisting /\ InputsUnchanged) =>
    \A j \in DOMAIN processJobs :
      /\ processJobs[j].outPath \in DOMAIN outFs
      /\ outFs[processJobs[j].outPath] = Expected(processJobs[j])

\* C6: with deleteUnknown=true, when processMany has completed the image
\* files of the output directory are exactly the planned output paths.
C6_OnlyPlannedImagesRemain ==
  (params.files.deleteUnknown /\ pc = "done") => GlobOut(outFs) = PlannedPaths

C6_Witness ==
  /\ params.files.deleteUnknown /\ pc = "done"
  /\ "out/old_t.jpg" \in unlinked
  /\ "out/notes.txt" \in DOMAIN outFs

\* C7: with deleteUnknown=false no step removes a file of the output directory.
C7_NothingDeleted ==
  [][~params.files.deleteUnknown => \A p \in DOMAIN outFs : p \in DOMAIN outFs']_vars

C7_Witness ==
  /\ ~params.files.deleteUnknown /\ pc = "done"
  /\ UnknownFiles(outFs, KnownFiles) # {}

C9_NoExistingReport ==
  parsed.kind \in {"absent", "garbage"} =>
    \/ saveState = "written" /\ reportFile = Stringify(report)
    \/ saveState = "failed" /\ saveError = "writeFile"

C9_Witness ==
  /\ parsed.kind = "garbage"
  /\ variant # "plain"
  /\ saveState = "written"
  /\ DOMAIN report.original # {}
  /\ DOMAIN report.processed # {}

\* C10: with outMetadata set, processMany has completed successfully only
\* when the report file has been written.
C10_ReportWrittenBeforeSuccess ==
  (params.outMetadata /\ pc = "done") => saveState = "written"

\* C11: when the input glob finds no image, processMany has rejected with
\* 'No images found', no job exists, no tool was invoked, the report was not
\* touched, nothing was unlinked and the output directory is as the run found
\* it.
C11_NoImagesFailsEarly ==
  /\ []((run >= 1 /\ Len(inFiles) = 0) =>
          /\ pc \in {"failed", "exited"}
          /\ error = "No images found"
          /\ processJobs = <<>>
          /\ calls = <<>>
          /\ saveState = "none"
          /\ unlinked = {}
          /\ outFs = prevOut)
  /\ [][(run' >= 1 /\ Len(inFiles') = 0) =>
          outFs' = outFs /\ reportFile' = reportFile]_vars

C11_Witness ==
  /\ run >= 1 /\ Len(inFiles) = 0 /\ pc = "exited"
  /\ params.files.deleteUnknown
  /\ "out/old_t.jpg" \in DOMAIN outFs

\* C12: once the jobs are planned there are |inFiles| x |targets| of them and
\* every (input file, target) pair is the pair of exactly one job.
C12_OneJobPerPair ==
  pc \in {"jobs", "report", "table", "delete", "unlink", "done"} =>
    /\ Len(inFiles) > 0
    /\ Len(processJobs) = Len(inFiles) * Len(targets)
    /\ \A i \in DOMAIN inFiles : \A n \in DOMAIN targets :
         Cardinality({j \in DOMAIN processJobs :
                        /\ processJobs[j].inPath = inFiles[i]
                        /\ processJobs[j].target = targets[n]}) = 1

C12_Witness ==
  /\ pc = "jobs"
  /\ Len(inFiles) = 2 /\ Len(targets) = 2
  /\ Len(processJobs) = 4

\* C13: after the jobs have all completed, processResults has as many
\* entries as there are jobs and, for every job, skipped or not, exactly one
\* entry with the job's inPath, outPath, target name and skipped flag.
C13_OneResultPerJob ==
  pc \in {"report", "table", "delete", "unlink", "done"} =>
    /\ Len(processResults) = Len(processJobs)
    /\ \A j \in DOMAIN processJobs :
         Cardinality({i \in DOMAIN processResults :
                        /\ processResults[i].inPath = processJobs[j].inPath
                        /\ processResults[i].outPath = processJobs[j].outPath
                        /\ processResults[i].target = processJobs[j].target.name
                        /\ processResults[i].skipped = skipped[j]}) = 1

C13_Witness ==
  /\ pc = "done"
  /\ \E i, k \in DOMAIN processResults :
       processResults[i].skipped /\ ~processResults[k].skipped

\* C14: an input file whose readMetadata returned a failure has no entry in
\* report.original, every other input file has its entry, the step that met
\* the failure goes on to the rest of the report, and every job is done and
\* has its entry in report.processed; without a usable existing report the
\* written file has the same keys.
C14_FailedInputLeftOut ==
  /\ [](saveState \in {"readOut", "write", "written"} =>
          /\ \A i \in DOMAIN inFiles :
               IF FailedToRead(inFiles[i]) \in log
                 THEN RelPath(inFiles[i]) \notin DOMAIN report.original
                 ELSE /\ RelPath(inFiles[i]) \in DOMAIN report.original
                      /\ report.original[RelPath(inFiles[i])] = MetaOf(runIn[inFiles[i]])
          /\ \A j \in DOMAIN processJobs : jpc[j] = "done"
          /\ saveState \in {"write", "written"} =>
               \A j \in DOMAIN processJobs :
                 \E key \in DOMAIN report.processed :
                   PathJoin(OutDir, key) = processJobs[j].outPath
          /\ (saveState = "written" /\ ~(variant # "plain" /\ Usable(parsed))) =>
               /\ DOMAIN reportFile.original = DOMAIN report.original
               /\ DOMAIN reportFile.processed = DOMAIN report.processed)
  /\ [][(\E i \in DOMAIN inFiles :
            FailedToRead(inFiles[i]) \in log' /\ FailedToRead(inFiles[i]) \notin log)
          => saveState' = "readOut" /\ error' = error /\ outFs' = outFs]_vars

C14_Witness ==
  /\ saveState = "written"
  /\ reportFile.kind = "json"
  /\ FailedToRead(FileA) \in log
  /\ "sub/c.png" \in DOMAIN reportFile.original
  /\ "a.jpg" \notin DOMAIN reportFile.original
  /\ "a_t.jpg" \in DOMAIN reportFile.processed

\* The target arguments that fail to parse.
Failing == {i \in DOMAIN argv : ~ParseTarget(argv[i]).success}

\* C15: when some target argument fails to parse, the command ends in
\* this.error with the messages of all failing arguments, one each, in
\* argument order, joined into one report, and processMany is never entered.
C15_TargetErrorsBatched ==
  (cmdPc # "parse" /\ Failing # {}) =>
    /\ cmdPc = "error"
    /\ Len(errors) = Cardinality(Failing)
    /\ \A i \in Failing :
         errors[Cardinality({k \in Failing : k <= i})] = ParseTarget(argv[i]).error
    /\ reported = JoinLines(errors)
    /\ run = 0
    /\ pc = "idle"
    /\ processJobs = <<>>
    /\ outFs = StaleOut

C15_Witness ==
  /\ cmdPc = "error"
  /\ Len(argv) = 3
  /\ ParseTarget(argv[1]).success
  /\ Len(errors) = 2
  /\ errors[1] # errors[2]

ExifCalls(j) == {i \in DOMAIN calls[j] : calls[j][i].tool = "exiftool"}

\* C16: a job that was not skipped and is done has invoked exiftool exactly
\* once; any exiftool invocation of a job is its last call, comes right after
\* the cjpegli call that wrote the output file, is made on the output file,
\* and copies the tags of the input when preserveMetadata is true and strips
\* all tags when it is false.
C16_OneMetadataCall ==
  \A j \in DOMAIN processJobs :
    /\ (jpc[j] = "done" /\ ~skipped[j]) => Cardinality(ExifCalls(j)) = 1
    /\ \A i \in ExifCalls(j) :
         /\ i = Len(calls[j])
         /\ i >= 2
         /\ calls[j][i - 1].tool = "cjpegli"
         /\ calls[j][i - 1].dst = processJobs[j].outPath
         /\ calls[j][i].dst = processJobs[j].outPath
         /\ IF params.preserveMetadata
              THEN calls[j][i].arg = "-tagsfromfile" /\ calls[j][i].src = InPath(processJobs[j].inPath)
              ELSE calls[j][i].arg = "-all=" /\ calls[j][i].src = ""

C16_Witness ==
  \E j \in DOMAIN processJobs :
    /\ jpc[j] = "done" /\ ~skipped[j]
    /\ params.preserveMetadata
    /\ Len(calls[j]) = 3
    /\ outFs[processJobs[j].outPath].meta = "copied"

\* toDate has returned.
DateReturned == fn = "toDate" /\ libPc = "returned"

\* UTC offsets as exiftool prints them, with what they are in minutes.
ValidOffsets ==
  {[text |-> Zulu, minutes |-> 0]}
    \cup {[text |-> FormatOffset(m), minutes |-> m] : m \in OffsetMinutes}

\* Every dto of the form YYYY:MM:DD HH:MM:SS, with its six numbers.
Dtos == {[text |-> DtoOf(c), c |-> c] : c \in DtoFields}

\* The six numbers are a date of the calendar and a time of the day.
CivilDate(c) ==
  /\ c[2] \in 1..12
  /\ c[3] \in 1..DaysIn(c[1], c[2])
  /\ c[4] <= 23 /\ c[5] <= 59 /\ c[6] <= 59

\* toDate's result is the given date and time at the given offset.
DateIs(c, z) ==
  /\ ret.success
  /\ ret.date = TimeValue(c[1], c[2], c[3], c[4], c[5], c[6], z.minutes)
  /\ ret.localDate = c

\* C17: for every dto of the form YYYY:MM:DD HH:MM:SS and every valid UTC
\* offset, toDate succeeds, date is that instant and localDate the six
\* numbers of the dto.
C17_ToDateSucceeds ==
  DateReturned =>
    \A d \in Dtos : \A z \in ValidOffsets :
      (dto = d.text /\ oto = z.text) => DateIs(d.c, z)

\* C17 (amended): the same, for every dto whose six numbers are a date of the
\* calendar and a time of the day.
C17_ToDateSucceedsOnCivilDates ==
  DateReturned =>
    \A d \in Dtos : \A z \in ValidOffsets :
      (dto = d.text /\ oto = z.text /\ CivilDate(d.c)) => DateIs(d.c, z)

C17_Witness ==
  /\ DateReturned
  /\ dto = DtoOf(<<2024, 2, 29, 15, 35, 5>>)
  /\ oto = FormatOffset(-300)
  /\ ret.success
  /\ ret.localDate = <<2024, 2, 29, 15, 35, 5>>

\* The six numbers cannot be a date and time whatever the engine.
NoDate(c) ==
  \/ c[2] \notin 1..12
  \/ c[3] \notin 1..31
  \/ c[4] > 23 \/ c[5] > 59 \/ c[6] > 59

\* C18: toDate fails with 'Could not parse DateTimeOriginal field' on every
\* dto that is not of the form YYYY:MM:DD HH:MM:SS, whatever the offset; on a
\* dto of that form it fails whenever the numbers or the offset make no
\* instant, and when it fails the error is 'Invalid date'.
C18_ToDateFails ==
  DateReturned =>
    /\ dto \in MalformedDtos =>
         ret = DateFailure("Could not parse DateTimeOriginal field")
    /\ \A d \in Dtos :
         dto = d.text =>
           /\ (oto = GarbageOffset \/ NoDate(d.c)) => ~ret.success
           /\ ~ret.success => ret = DateFailure("Invalid date")

C18_Witness ==
  /\ DateReturned
  /\ dto = DtoOf(<<2024, 5, 1, 15, 35, 5>>)
  /\ oto = GarbageOffset
  /\ ret = DateFailure("Invalid date")

\* parseExiftoolMetadata has returned.
MetaReturned == fn = "parseExiftoolMetadata" /\ libPc = "returned"

\* The key is among the pairs of the raw text and its value is an integer.
HasInteger(lines, key) ==
  LET kv == Kv(lines)
  IN /\ key \in DOMAIN kv
     /\ LET number == NumberOf(kv[key]) IN ~number.nan /\ number.int

\* The line gives a pair whose key the schema does not know.
UnknownKeyLine(line) == LineMatch(line) /\ NormalizeKey(KeyOf(line)) \notin SchemaKeys

\* Raw texts that differ from the given one only in pairs of unknown keys:
\* one such line emptied or exchanged for another, or one more appended.
Variations(lines) ==
  {[lines EXCEPT ![i] = l] :
     i \in {k \in DOMAIN lines : UnknownKeyLine(lines[k])}, l \in {Line.Empty, Line.Other}}
    \cup {Append(lines, Line.Extra)}

\* The width and the height decide the success, and nothing else does.
SizesDecide ==
  ret.success <=> (HasInteger(raw, Key.ImageWidth) /\ HasInteger(raw, Key.ImageHeight))

\* C19: parseExiftoolMetadata succeeds exactly when ImageWidth and
\* ImageHeight are both given and coerce to integers, other keys being there
\* or not, and every raw text that differs only in unknown keys gives the same
\* result.
C19_SizesRequiredOthersIgnored ==
  MetaReturned =>
    /\ SizesDecide
    /\ \A other \in Variations(raw) : ParseExiftoolMetadata(other, lenient) = ret

\* C19 (amended): the same, the result being the same for every raw text
\* that differs only in unknown keys and, like the given one, has at least one
\* key/value pair.
C19_SizesRequiredOthersIgnoredAmongPairs ==
  MetaReturned =>
    /\ SizesDecide
    /\ \A other \in Variations(raw) :
         (DOMAIN Kv(raw) # {} /\ DOMAIN Kv(other) # {}) =>
           ParseExiftoolMetadata(other, lenient) = ret

C19_Witness ==
  /\ MetaReturned
  /\ ret.success
  /\ \E i \in DOMAIN raw : raw[i] = Line.Extra
  /\ ret.metadata.cameraMake = Undef
  /\ ret.metadata.width = Num(5970)

\* C20: when no line of the raw text gives a key/value pair,
\* parseExiftoolMetadata fails with exactly 'Could not parse metadata'.
C20_NoPairsNoParse ==
  (MetaReturned /\ \A i \in DOMAIN raw : ~LineMatch(raw[i])) =>
    ret = MetadataFailure("Could not parse metadata")

C20_Witness ==
  /\ MetaReturned
  /\ raw = <<Line.Garbage, Line.NoSpace>>
  /\ ret = MetadataFailure("Could not parse metadata")

\* C21: when Location and Sub-location are both given, the location of the
\* metadata is the longer of the two texts; when one is given, it is that one.
C21_LongerLocationWins ==
  (MetaReturned /\ ret.success) =>
    LET kv == Kv(raw)
        loc == Key.Location \in DOMAIN kv
        sub == Key.Sublocation \in DOMAIN kv
        text(key) == [k |-> "str", v |-> kv[key]]
    IN /\ (loc /\ sub /\ Len(kv[Key.Sublocation]) > Len(kv[Key.Location]))
            => ret.metadata.location = text(Key.Sublocation)
       /\ (loc /\ sub /\ Len(kv[Key.Location]) > Len(kv[Key.Sublocation]))
            => ret.metadata.location = text(Key.Location)
       /\ (loc /\ ~sub) => ret.metadata.location = text(Key.Location)
       /\ (sub /\ ~loc) => ret.metadata.location = text(Key.Sublocation)

C21_Witness ==
  /\ MetaReturned
  /\ raw = <<Line.Width, Line.Height, Line.Location, Line.Sublocation>>
  /\ ret.success
  /\ ret.metadata.location = [k |-> "str", v |-> <<"B", "e", "a", "c", "h">>]

\* The raw text gives a DateTimeOriginal that toDate fails on.
DateFails ==
  LET kv == Kv(raw)
  IN /\ Key.DateTimeOriginal \in DOMAIN kv
     /\ ~ToDate(kv[Key.DateTimeOriginal],
                IF Key.OffsetTimeOriginal \in DOMAIN kv
                  THEN kv[Key.OffsetTimeOriginal] ELSE NoOffset,
                lenient).success

\* The raw text gives no pair, or not both sizes as integers.
ExtractionOrSchemaFails ==
  \/ \A i \in DOMAIN raw : ~LineMatch(raw[i])
  \/ ~(HasInteger(raw, Key.ImageWidth) /\ HasInteger(raw, Key.ImageHeight))

\* C25: parseExiftoolMetadata returns a failure whenever the extraction of
\* the pairs, the validation against the schema or the parsing of a given
\* DateTimeOriginal fails.
C25_EveryFailureIsTagged ==
  (MetaReturned /\ (ExtractionOrSchemaFails \/ DateFails)) =>
    (~ret.success /\ ret.error # "")

\* C25 (amended): parseExiftoolMetadata returns a failure whenever the
\* extraction of the pairs or the validation against the schema fails; when
\* only the parsing of a given DateTimeOriginal fails it succeeds, with
\* neither date nor localDate.
C25_FailureIsTaggedButForDate ==
  MetaReturned =>
    IF ExtractionOrSchemaFails
      THEN ~ret.success /\ ret.error # ""
      ELSE DateFails =>
             /\ ret.success
             /\ ret.metadata.date = Undef
             /\ ret.metadata.localDate = Undef

C25_Witness ==
  /\ MetaReturned
  /\ raw = <<Line.Width, Line.Height, Line.DateBad>>
  /\ ret.success
  /\ ret.metadata.date = Undef

\* The key without its spaces, tabs, hyphens and underscores.
Collapsed(key) == SelectSeq(key, LAMBDA c : c \notin {" ", "\t", "-", "_"})

\* C30: every line that gives a pair is stored under its key without spaces,
\* tabs, hyphens and underscores, so the sizes are found however their keys
\* are written and padded.
C30_KeyVariantsCollapse ==
  MetaReturned =>
    /\ \A i \in DOMAIN raw :
         LineMatch(raw[i]) => Collapsed(KeyOf(raw[i])) \in DOMAIN Kv(raw)
    /\ raw \in {<<Line.WidthTab, Line.Height>>, <<Line.Width, Line.HeightUnderscore>>}
         => ret.success

\* The processOne executions that are running.
Running == {j \in DOMAIN jpc : InFlight(j)}

\* C22: at no moment are more processOne executions in flight than the host
\* has logical cores, however many jobs are planned.
C22_PoolBound == Cardinality(Running) <= Cpus

C22_Witness ==
  /\ pc = "jobs"
  /\ Len(processJobs) > Cpus
  /\ Cardinality(Running) = Cpus
  /\ \E j \in DOMAIN jpc : jpc[j] = "queued"

AllJobsDone == \A j \in DOMAIN processJobs : jpc[j] = "done"

\* C23: the report is built only after every job has finished, and unknown
\* files are looked for and deleted only after every job has finished and,
\* when a report is requested, after the report has been written.
C23_PhasesInSequence ==
  /\ saveState # "none" => AllJobsDone
  /\ (pc \in {"delete", "unlink"} \/ unlinked # {}) =>
       /\ AllJobsDone
       /\ params.outMetadata => saveState = "written"

\* C24: when the metadata of one output file cannot be parsed, the report
\* does not fail on it.
C24_OutputFailureIsolated ==
  \A i \in DOMAIN processResults :
    saveError = "Failed to read metadata for " \o processResults[i].outPath
      => saveState # "failed"

\* C24 as the code has it: when the metadata of one output file cannot be
\* parsed, saveMetadataReport rejects with 'Failed to read metadata for' and
\* the path, no report is written, and in the revisions that await the report
\* processMany fails with that error.
C24_OutputFailureRejects ==
  \A i \in DOMAIN processResults :
    saveError = "Failed to read metadata for " \o processResults[i].outPath =>
      /\ saveState = "failed"
      /\ variant # "plain" => (pc \in {"failed", "exited"} /\ error = saveError)

C24_Witness ==
  /\ variant = "hashed"
  /\ Len(processResults) >= 2
  /\ saveError = "Failed to read metadata for " \o processResults[1].outPath
  /\ saveState = "failed"
  /\ pc = "failed"

\* C26: after a merge, for every key of both reports, a field of the existing
\* entry that the new run did not produce is in the written report with its
\* old value.
C26_OldFieldsSurvive ==
  Merged =>
    \A sec \in Sections : \A key \in SharedKeys(sec) :
      \A f \in DOMAIN parsed[sec][key] :
        (f \notin DOMAIN report[sec][key] \/ report[sec][key][f].k = "undef") =>
          /\ f \in DOMAIN reportFile[sec][key]
          /\ reportFile[sec][key][f] = parsed[sec][key][f]

C26_Witness ==
  /\ Merged
  /\ variant = "hashed"
  /\ "a.jpg" \in SharedKeys("original")
  /\ "note" \notin DOMAIN report.original["a.jpg"]
  /\ report.original["a.jpg"].cameraMake = Undef
  /\ reportFile.original["a.jpg"].note = Str(6)
  /\ reportFile.original["a.jpg"].cameraMake = Str(9)

\* The output path the previous run planned for the job's input and target.
PreviousPath(j) ==
  OutPathOf(variant, processJobs[j].inPath, processJobs[j].target,
            Sha8(prevIn[processJobs[j].inPath]))

\* The job is of an input whose content hash is not the one of the previous run.
HashChanged(j) ==
  /\ run >= 2
  /\ Sha8(runIn[processJobs[j].inPath]) # Sha8(prevIn[processJobs[j].inPath])

\* C27: in the hashed revision, without reprocessExisting, a job of an input
\* whose content hash changed since the previous run has another output path
\* than before and is not skipped unless a file is already at that path.
C27_ChangedSourceReprocessed ==
  (variant = "hashed" /\ ~params.files.reprocessExisting) =>
    \A j \in DOMAIN processJobs :
      (HashChanged(j) /\ jpc[j] # "queued") =>
        /\ processJobs[j].outPath # PreviousPath(j)
        /\ ~existed[j] => ~skipped[j]

C27_Witness ==
  /\ variant = "hashed"
  /\ ~params.files.reprocessExisting
  /\ \E j \in DOMAIN processJobs :
       /\ HashChanged(j)
       /\ jpc[j] = "done"
       /\ ~skipped[j]
       /\ PreviousPath(j) \in DOMAIN outFs

\* The job was not skipped and its two image tools have run.
Converted(j) == ~skipped[j] /\ jpc[j] \in {"exif", "stat", "done"}

\* C28: a job that is not skipped runs the resize tool exactly when its target
\* has a maxWidth or a maxHeight, with the geometry 'WxH>', 'W>' or 'xH>', and
\* the compressor then reads the resized temporary file; otherwise the
\* compressor reads the input file.
C28_ResizeIffSized ==
  \A j \in DOMAIN processJobs :
    Converted(j) =>
      LET t == processJobs[j].target
          sized == t.maxWidth # 0 \/ t.maxHeight # 0
          geometry == IF t.maxWidth # 0 /\ t.maxHeight # 0
                        THEN ToString(t.maxWidth) \o "x" \o ToString(t.maxHeight) \o ">"
                      ELSE IF t.maxWidth # 0 THEN ToString(t.maxWidth) \o ">"
                      ELSE "x" \o ToString(t.maxHeight) \o ">"
          first == calls[j][1]
          second == calls[j][2]
      IN /\ sized <=> \E i \in DOMAIN calls[j] : calls[j][i].tool = "magick"
         /\ sized =>
              /\ first = [tool |-> "magick", src |-> InPath(processJobs[j].inPath),
                          arg |-> geometry, dst |-> "tmp"]
              /\ second.tool = "cjpegli" /\ second.src = "tmp"
         /\ ~sized =>
              /\ first.tool = "cjpegli"
              /\ first.src = InPath(processJobs[j].inPath)

C28_Witness ==
  \E j \in DOMAIN processJobs :
    /\ Converted(j)
    /\ jpc[j] = "done"
    /\ processJobs[j].target = TargetS
    /\ calls[j][1].tool = "magick"
    /\ calls[j][1].arg = "100x50>"
    /\ calls[j][2].src = "tmp"

\* C29: when processOne has returned the result of a job it did not skip, or
\* has failed, the temporary file of the job is gone.
C29_TempFileGone ==
  \A j \in DOMAIN processJobs :
    (~skipped[j] /\ jpc[j] \in {"done", "failed"}) => ~tmp[j]

C29_Witness ==
  \E j \in DOMAIN processJobs :
    /\ jpc[j] = "failed"
    /\ calls[j][Len(calls[j])].tool = "cjpegli"
    /\ Len(calls[j]) = 2
    /\ ~tmp[j]

\* The table of this run has been printed.
Displayed ==
  /\ pc \in {"delete", "unlink", "done"}
  /\ ~(params.noTable /\ variant # "plain")

\* C31: the rows of the printed table are in the order of their input paths,
\* and rows of one input path are in the order of their targets in the
\* target list.
C31_RowsOrdered ==
  Displayed =>
    \A i, k \in DOMAIN processResults :
      i < k =>
        LET a == processResults[i]
            b == processResults[k]
            names == [n \in DOMAIN targets |-> targets[n].name]
        IN \/ LocaleRank(a.inPath) < LocaleRank(b.inPath)
           \/ /\ a.inPath = b.inPath
              /\ IndexOf(names, a.target) <= IndexOf(names, b.target)

C31_Witness ==
  /\ Displayed
  /\ Len(processResults) = 4
  /\ processResults # AllResults(processJobs)
  /\ processResults[1].inPath = processResults[2].inPath
  /\ processResults[1].target # processResults[2].target
  /\ processResults[2].inPath # processResults[3].inPath

\* The offsets that stand for UTC: none given, 'Z', and '00:00'.
UtcOffsets == {NoOffset, Zulu, <<"0", "0", ":", "0", "0">>}

\* C32: for a dto of the form YYYY:MM:DD HH:MM:SS, toDate returns the same
\* with the offset left out, with 'Z' and with '00:00': the same instant and
\* the same localDate.
C32_UtcOffsetsAgree ==
  (DateReturned /\ DtoMatch(dto) /\ oto \in UtcOffsets) =>
    \A o \in UtcOffsets :
      LET r == ToDate(dto, o, lenient)
      IN /\ r.success = ret.success
         /\ r.success => (r.date = ret.date /\ r.localDate = ret.localDate)

C32_Witness ==
  /\ DateReturned
  /\ oto = <<"0", "0", ":", "0", "0">>
  /\ ret.success
  /\ ret.localDate = <<2024, 12, 29, 15, 35, 5>>
  /\ ret.date = ToDate(dto, NoOffset, lenient).date

\* The run merges the report the previous run wrote, over the same inputs and
\* the same output files, the metadata of the same files being read.
SecondReconciliation ==
  /\ Merged
  /\ run >= 2 /\ prevStatus = "done"
  /\ InputsUnchanged
  /\ \A j \in DOMAIN processJobs : skipped[j]
  /\ \A sec \in Sections : DOMAIN report[sec] = DOMAIN parsed[sec]

\* C33: a run that merges the report of the previous run over unchanged
\* inputs and outputs writes that report again; no array of it, such as
\* localDate, has more components than before.
C33_ReconciliationIdempotent ==
  SecondReconciliation =>
    /\ reportFile = parsed
    /\ \A key \in DOMAIN reportFile.original :
         "localDate" \in DOMAIN reportFile.original[key] =>
           Len(reportFile.original[key].localDate.v) = 6

\* C34: when the processOne of a job has failed, processMany has failed, and
\* the run neither builds or writes the report nor looks for or deletes
\* files of the output directory.
C34_FailedJobFailsRun ==
  (\E j \in DOMAIN processJobs : jpc[j] = "failed") =>
    /\ pc \in {"failed", "exited"}
    /\ error \in {"magick", "cjpegli", "exiftool"}
    /\ saveState = "none"
    /\ processResults = <<>>
    /\ unknownFiles = {} /\ unlinked = {}

C34_Witness ==
  /\ params.outMetadata /\ params.files.deleteUnknown
  /\ pc = "exited"
  /\ \E j \in DOMAIN processJobs : jpc[j] = "failed"
  /\ \E j \in DOMAIN processJobs : jpc[j] = "done"
  /\ GlobOut(outFs) \ PlannedPaths # {}
  /\ saveState = "none"

\* The input files whose metadata was read in this run.
Extracted == {f \in {inFiles[i] : i \in DOMAIN inFiles} : FailedToRead(f) \notin log}

\* C35: when the hashed revision has merged a well-formed existing report and
\* written the result, the keys of its `original` map are the paths, relative
\* to inDir, of the inputs whose metadata was read in this run, and the keys
\* of its `processed` map are the paths, relative to outDir, of the results
\* of this run, those of skipped jobs included.
C35_WrittenKeysAreThisRuns ==
  (Merged /\ variant = "hashed") =>
    /\ DOMAIN reportFile.original = {RelPath(f) : f \in Extracted}
    /\ {PathJoin(OutDir, key) : key \in DOMAIN reportFile.processed}
         = {processResults[i].outPath : i \in DOMAIN processResults}
    /\ Len(processResults) = Len(processJobs)

C35_Witness ==
  /\ Merged /\ variant = "hashed"
  /\ deleted # {}
  /\ Extracted # {}
  /\ \E i \in DOMAIN inFiles : inFiles[i] \notin Extracted
  /\ \E i \in DOMAIN processResults : processResults[i].skipped

\* The existing report was JSON, but no object or an object without one of
\* the two maps.
Incomplete(file) ==
  \/ file.kind = "scalar"
  \/ file.kind = "json" /\ file.has # {"original", "processed"}

\* C36: when the hashed revision finds an existing report that is JSON but
\* lacks `original` or `processed`, or is no object, saveMetadataReport fails
\* on nothing but the writing of the file, and what it writes is the report of
\* the current run, with nothing of the existing file in it.
C36_IncompleteReportIgnored ==
  (variant = "hashed" /\ Incomplete(parsed)) =>
    \/ saveState = "written" /\ reportFile = Stringify(report)
    \/ saveState = "failed" /\ saveError = "writeFile"

C36_Witness ==
  /\ variant = "hashed"
  /\ parsed.kind = "json" /\ parsed.has = {"original"}
  /\ "gone.jpg" \in DOMAIN parsed.original
  /\ saveState = "written"
  /\ DOMAIN reportFile.original = {"a.jpg"}
  /\ "note" \notin DOMAIN reportFile.original["a.jpg"]
  /\ DOMAIN reportFile.processed # {}

====
